---- MODULE Spec2Model ----
(***************************************************************************)
(* Session / token lifecycle and login lockout of the SMK authentication   *)
(* backend: routes/auth.js (login, refresh, logout), routes/users.js       *)
(* (password change, session revocation) and lib/jwt.js.                   *)
(*                                                                         *)
(* Time is counted in ticks of Date.now(); TicksPerSec ticks make one      *)
(* second, the resolution of the iat/exp claims of a JWT.                  *)
(***************************************************************************)
EXTENDS Integers, FiniteSets, Sequences, TLC

\* ------------------------------------------------------------ bounds
MaxClock == 5
TicksPerSec == 2
MaxSessions == 2
MaxAttempts == 6
MaxLogins == 6

\* ------------------------------------------------------------ configuration
\* parseInt(process.env.MAX_LOGIN_ATTEMPTS) || 5
MAX_LOGIN_ATTEMPTS == 5
\* parseInt(process.env.LOCK_TIME) || 30 * 60 * 1000, scaled: seconds, then ticks
LOCK_SECONDS == 1
LOCK_TIME == LOCK_SECONDS * TicksPerSec
\* JWT_REFRESH_EXPIRES_IN '30d' and JWT_EXPIRES_IN '7d', scaled to seconds
JWT_REFRESH_EXPIRES_IN == 2
JWT_EXPIRES_IN == 1
\* expiresAt.setDate(expiresAt.getDate() + 30): the same 30 days, in ticks
SESSION_TTL == JWT_REFRESH_EXPIRES_IN * TicksPerSec

\* audience: 'smk-frontend' of jwt.sign and jwt.verify; the issuer 'smk-auth'
\* is signed and checked in the same way
JWT_AUDIENCE == "smk-frontend"

\* ------------------------------------------------------------ values
NoTime == 0 - 1
UserIds == {"u1", "u2"}
Statuses == {"ACTIVE", "INACTIVE", "SUSPENDED", "PENDING_VERIFICATION"}
NoUser == [id |-> "none"]
NoSession == [id |-> 0]
NoToken == [typ |-> "none"]

\* request inputs
Emails == {"a@x.com", "A@X.com", "b@x.com", "nobody@x.com", "not-an-email"}
Passwords == {"Str0ng!Pass", "0ther!Pass1", ""}
IpAddresses == {"ip1", "ip2"}
UserAgents == {"", "ua1"}

\* login requests the server can be serving at the same time
Requests == {"r1", "r2"}
Idle == [pc |-> "idle"]

VARIABLES clock, users, sessions, nextSid, auditStore, auditLog, resp,
          inflight, loginStats, revision, env

vars == <<clock, users, sessions, nextSid, auditStore, auditLog, resp,
          inflight, loginStats, revision, env>>

\* process.env as lib/jwt.js reads it when it is loaded: a deployment that
\* sets two secrets, and one that sets the same secret twice
DefaultEnv == [JWT_SECRET |-> "access-secret", JWT_REFRESH_SECRET |-> "refresh-secret"]
SharedSecretEnv == [JWT_SECRET |-> "one-secret", JWT_REFRESH_SECRET |-> "one-secret"]

\* const JWT_SECRET = process.env.JWT_SECRET
JWT_SECRET == env.JWT_SECRET
\* const JWT_REFRESH_SECRET = process.env.JWT_REFRESH_SECRET
JWT_REFRESH_SECRET == env.JWT_REFRESH_SECRET

\* ------------------------------------------------------------ helpers
\* email.toLowerCase()
ToLowerCase(email) ==
  CASE email = "A@X.com" -> "a@x.com"
    [] OTHER -> email

\* Joi.string().email(): the request validator's verdict on an email
IsEmail(email) == email # "not-an-email"

\* bcrypt: hashPassword / comparePassword
HashPassword(plain) == <<"bcrypt", plain>>

ComparePassword(plain, hashed) == hashed = HashPassword(plain)

\* Math.floor(Date.now() / 1000)
Seconds(now) == now \div TicksPerSec

\* prisma.user.findUnique({ where: { email } })
FindUserByEmail(us, email) ==
  IF \E id \in DOMAIN us : us[id].email = email
    THEN us[CHOOSE id \in DOMAIN us : us[id].email = email]
    ELSE NoUser

\* prisma.user.update({ where: { id }, data })
UserUpdate(us, id, data) ==
  [us EXCEPT ![id] = [f \in DOMAIN us[id] |->
                        IF f \in DOMAIN data THEN data[f] ELSE us[id][f]]]

\* ------------------------------------------------------------ lib/jwt.js
\* jwt.sign(payload, JWT_SECRET, { expiresIn, issuer, audience })
generateAccessToken(payload, now) ==
  [secret |-> JWT_SECRET, userId |-> payload.userId, email |-> payload.email,
   role |-> payload.role, status |-> payload.status, aud |-> JWT_AUDIENCE,
   iat |-> Seconds(now), exp |-> Seconds(now) + JWT_EXPIRES_IN]

\* jwt.sign({ userId }, JWT_REFRESH_SECRET, { expiresIn, issuer, audience })
generateRefreshToken(userId, now) ==
  [secret |-> JWT_REFRESH_SECRET, userId |-> userId, aud |-> JWT_AUDIENCE,
   iat |-> Seconds(now), exp |-> Seconds(now) + JWT_REFRESH_EXPIRES_IN]

\* jwt.verify(token, JWT_REFRESH_SECRET, ...): signature, then the exp
\* claim, then the audience
verifyRefreshToken(token, now) ==
  /\ token.secret = JWT_REFRESH_SECRET
  /\ Seconds(now) < token.exp
  /\ token.aud = JWT_AUDIENCE

\* the payload generateTokenPair signs into the access token
TokenPayload(user) ==
  [userId |-> user.id, email |-> user.email, role |-> user.role, status |-> user.status]

\* variant: the row is stored without its owner
NewSession_Unowned(sid, user, now, ipAddress, userAgent) ==
  [id |-> sid, userId |-> "nobody", token |-> generateRefreshToken(user.id, now),
   expiresAt |-> now + SESSION_TTL, ipAddress |-> ipAddress, userAgent |-> userAgent]

\* the Session row generateTokenPair stores
NewSession(sid, user, now, ipAddress, userAgent) ==
  [id |-> sid, userId |-> user.id, token |-> generateRefreshToken(user.id, now),
   expiresAt |-> now + SESSION_TTL, ipAddress |-> ipAddress, userAgent |-> userAgent]

\* Session.token is the key of the session table: a second row with the
\* same token is refused by the store
TokenTaken(ss, token) == \E s \in ss : s.token = token

\* ------------------------------------------------------------ audit
\* logAuditEvent(userId, action, ...): best-effort append; a failure of the
\* audit store is caught and the log is left as it was
logAuditEvent(log, userId, action, details) ==
  IF auditStore = "up"
    THEN log \cup {[userId |-> userId, action |-> action, details |-> details]}
    ELSE log

\* ------------------------------------------------------------ POST /auth/login
\* variant: the comparison with the clock reversed
IsLocked_Flipped(user, now) == user.lockedUntil # NoTime /\ user.lockedUntil < now

\* user.lockedUntil && user.lockedUntil > new Date()
IsLocked(user, now) == user.lockedUntil # NoTime /\ user.lockedUntil > now

\* variant: the password is compared before the lock is looked at
LoginOutcome_PasswordFirst(user, password, now) ==
  CASE user = NoUser -> "not_found"
    [] ~ComparePassword(password, user.password) -> "bad_password"
    [] user.lockedUntil # NoTime /\ user.lockedUntil > now -> "locked"
    [] user.status # "ACTIVE" -> "not_active"
    [] OTHER -> "ok"

\* variant: the status of the account is not looked at
LoginOutcome_NoStatusCheck(user, password, now) ==
  CASE user = NoUser -> "not_found"
    [] IsLocked(user, now) -> "locked"
    [] ~ComparePassword(password, user.password) -> "bad_password"
    [] OTHER -> "ok"

\* the branch the handler takes for the user row it read
LoginOutcome(user, password, now) ==
  CASE user = NoUser -> "not_found"
    [] IsLocked(user, now) -> "locked"
    [] ~ComparePassword(password, user.password) -> "bad_password"
    [] user.status # "ACTIVE" -> "not_active"
    [] OTHER -> "ok"

\* variant: locks one attempt late (> for >=)
FailedLoginData_OffByOne(user, now) ==
  LET newAttempts == user.loginAttempts + 1 IN
  IF newAttempts > MAX_LOGIN_ATTEMPTS
    THEN [loginAttempts |-> newAttempts, lockedUntil |-> now + LOCK_TIME]
    ELSE [loginAttempts |-> newAttempts]

\* variant: a lock that has run out starts the count again
FailedLoginData_RestartsAfterLapse(user, now) ==
  LET newAttempts == IF user.lockedUntil # NoTime /\ user.lockedUntil <= now
                       THEN 1 ELSE user.loginAttempts + 1 IN
  IF newAttempts >= MAX_LOGIN_ATTEMPTS
    THEN [loginAttempts |-> newAttempts, lockedUntil |-> now + LOCK_TIME]
    ELSE [loginAttempts |-> newAttempts, lockedUntil |-> NoTime]

\* updateData of the failure branch
FailedLoginData(user, now) ==
  LET newAttempts == user.loginAttempts + 1 IN
  IF newAttempts >= MAX_LOGIN_ATTEMPTS
    THEN [loginAttempts |-> newAttempts, lockedUntil |-> now + LOCK_TIME]
    ELSE [loginAttempts |-> newAttempts]

\* variant: the reset forgets loginAttempts
SuccessLoginData_KeepsCounter(now) ==
  [lockedUntil |-> NoTime, lastLoginAt |-> now]

\* data of the success branch
SuccessLoginData(now) ==
  [loginAttempts |-> 0, lockedUntil |-> NoTime, lastLoginAt |-> now]

\* variant: a failed audit write reaches the handler, whose catch block
\* answers 500
Response_AuditFailure(op, code, message, uid, tokens) ==
  IF auditStore = "down"
    THEN [op |-> op, code |-> 500, message |-> "Internal server error", userId |-> uid,
          accessToken |-> NoToken, refreshToken |-> NoToken]
    ELSE [op |-> op, code |-> code, message |-> message, userId |-> uid,
          accessToken |-> tokens[1], refreshToken |-> tokens[2]]

\* res.status(code).json({ success, message, data: { user, tokens } })
Response(op, code, message, uid, tokens) ==
  [op |-> op, code |-> code, message |-> message, userId |-> uid,
   accessToken |-> tokens[1], refreshToken |-> tokens[2]]

NoTokens == <<NoToken, NoToken>>

\* variant: the handler returns the row as the store holds it
Select_WholeRow(row, fields) == row

\* select: { ... }: the columns of a row a handler reads or returns
Select(row, fields) == [f \in fields \cap DOMAIN row |-> row[f]]

\* res.json({ ..., data: { user, ... } }): a response that carries a user
WithUser(response, user) ==
  [f \in DOMAIN response \cup {"user"} |->
     IF f = "user" THEN user ELSE response[f]]

\* the columns of userData of the login handler and of the user that
\* refreshAccessToken returns, as far as the model has them
UserData == {"id", "email", "role", "status"}

LoginResponse(code, message, uid, tokens) == Response("login", code, message, uid, tokens)

Login(email, password, ipAddress, userAgent) ==
  /\ /\ IF ~IsEmail(email) \/ password = ""
        THEN /\ resp' = LoginResponse(400, "Validation failed", "none", NoTokens)
             /\ UNCHANGED <<auditStore, clock, users, sessions, nextSid, auditLog>>
        ELSE
          LET user == FindUserByEmail(users, ToLowerCase(email))
              outcome == LoginOutcome(user, password, clock)
          IN
          CASE outcome = "not_found" ->
                 /\ auditLog' = logAuditEvent(auditLog, "none", "USER_LOGIN_FAILED", "User not found")
                 /\ resp' = LoginResponse(401, "Invalid email or password", "none", NoTokens)
                 /\ UNCHANGED <<auditStore, clock, users, sessions, nextSid>>
            [] outcome = "locked" ->
                 /\ auditLog' = logAuditEvent(auditLog, user.id, "USER_LOGIN_FAILED",
                                               "Account locked")
                 /\ resp' = LoginResponse(423,
                      "Account is temporarily locked due to too many failed login attempts",
                      "none", NoTokens)
                 /\ UNCHANGED <<auditStore, clock, users, sessions, nextSid>>
            [] outcome = "bad_password" ->
                 /\ user.loginAttempts < MaxAttempts
                 /\ users' = UserUpdate(users, user.id, FailedLoginData(user, clock))
                 /\ auditLog' = logAuditEvent(auditLog, user.id, "USER_LOGIN_FAILED",
                      IF user.loginAttempts + 1 >= MAX_LOGIN_ATTEMPTS
                        THEN "locked: true" ELSE "locked: false")
                 /\ resp' = LoginResponse(401, "Invalid email or password", "none", NoTokens)
                 /\ UNCHANGED <<auditStore, clock, sessions, nextSid>>
            [] outcome = "not_active" ->
                 /\ auditLog' = logAuditEvent(auditLog, user.id, "USER_LOGIN_FAILED",
                                               "Account not active")
                 /\ resp' = LoginResponse(401, "Account is not active", "none", NoTokens)
                 /\ UNCHANGED <<auditStore, clock, users, sessions, nextSid>>
            [] outcome = "ok" ->
                 LET row == NewSession(nextSid, user, clock, ipAddress, userAgent) IN
                 /\ nextSid <= MaxSessions
                 /\ users' = UserUpdate(users, user.id, SuccessLoginData(clock))
                 /\ IF TokenTaken(sessions, row.token)
                      THEN /\ resp' = LoginResponse(500, "Internal server error", "none", NoTokens)
                           /\ UNCHANGED <<sessions, nextSid, auditLog>>
                      ELSE /\ sessions' = sessions \cup {row}
                           /\ nextSid' = nextSid + 1
                           /\ auditLog' = logAuditEvent(auditLog, user.id, "USER_LOGIN", "success: true")
                           /\ resp' = WithUser(
                                LoginResponse(200, "Login successful", user.id,
                                         <<generateAccessToken(TokenPayload(user), clock),
                                           row.token>>),
                                Select(user, UserData))
                 /\ UNCHANGED <<auditStore, clock>>
  /\ UNCHANGED <<inflight, loginStats, revision, env>>

\* ------------------------------------------------------------ POST /auth/refresh
\* prisma.session.findFirst({ where: { token, userId, expiresAt: { gt: now } } })
FindLiveSession(ss, token, userId, now) ==
  IF \E s \in ss : s.token = token /\ s.userId = userId /\ s.expiresAt > now
    THEN CHOOSE s \in ss : s.token = token /\ s.userId = userId /\ s.expiresAt > now
    ELSE NoSession

\* variant: the status of the owner is not looked at
RefreshOutcome_NoStatusCheck(ss, us, token, now) ==
  IF ~verifyRefreshToken(token, now) THEN "invalid_token"
  ELSE IF FindLiveSession(ss, token, token.userId, now) = NoSession THEN "no_session"
  ELSE "ok"

\* variant: the status is made a condition of the session lookup
RefreshOutcome_StatusInQuery(ss, us, token, now) ==
  IF ~verifyRefreshToken(token, now) THEN "invalid_token"
  ELSE LET session == FindLiveSession(ss, token, token.userId, now) IN
       IF session = NoSession \/ us[session.userId].status # "ACTIVE" THEN "no_session"
       ELSE "ok"

\* the branch refreshAccessToken takes
RefreshOutcome(ss, us, token, now) ==
  IF ~verifyRefreshToken(token, now) THEN "invalid_token"
  ELSE LET session == FindLiveSession(ss, token, token.userId, now) IN
       IF session = NoSession THEN "no_session"
       ELSE IF us[session.userId].status # "ACTIVE" THEN "not_active"
       ELSE "ok"

\* variant: the session row is dropped on refresh
TouchSession_Rotates(ss, session, ipAddress, userAgent) == ss \ {session}

\* variant: a refresh moves the expiry of the session forward
TouchSession_Extends(ss, session, ipAddress, userAgent) ==
  (ss \ {session}) \cup
    {[session EXCEPT
        !.expiresAt = clock + SESSION_TTL,
        !.ipAddress = IF ipAddress # "" THEN ipAddress ELSE session.ipAddress,
        !.userAgent = IF userAgent # "" THEN userAgent ELSE session.userAgent]}

\* prisma.session.update({ where: { id }, data: { ipAddress, userAgent } })
TouchSession(ss, session, ipAddress, userAgent) ==
  IF ipAddress # "" \/ userAgent # ""
    THEN (ss \ {session}) \cup
         {[session EXCEPT
             !.ipAddress = IF ipAddress # "" THEN ipAddress ELSE session.ipAddress,
             !.userAgent = IF userAgent # "" THEN userAgent ELSE session.userAgent]}
    ELSE ss

Refresh(token, ipAddress, userAgent) ==
  /\ LET outcome == RefreshOutcome(sessions, users, token, clock) IN
     /\ IF outcome = "ok"
          THEN LET session == FindLiveSession(sessions, token, token.userId, clock)
                   user == users[session.userId]
               IN
               /\ sessions' = TouchSession(sessions, session, ipAddress, userAgent)
               /\ auditLog' = logAuditEvent(auditLog, user.id, "TOKEN_REFRESH", "success: true")
               /\ resp' = WithUser(
                    Response("refresh", 200, "Token refreshed successfully", user.id,
                             <<generateAccessToken(TokenPayload(user), clock), token>>),
                    Select(user, UserData))
          ELSE LET message == IF outcome = "not_active"
                                THEN "User account is not active"
                                ELSE "Invalid or expired refresh token"
               IN
               /\ auditLog' = logAuditEvent(auditLog, "none", "TOKEN_REFRESH", message)
               /\ resp' = Response("refresh", 401, message, "none", NoTokens)
               /\ UNCHANGED sessions
     /\ UNCHANGED <<auditStore, clock, users, nextSid>>
  /\ UNCHANGED <<inflight, loginStats, revision, env>>

\* ------------------------------------------------------------ POST /auth/logout
\* variant: every session of the token's user is deleted
revokeRefreshToken_ByUser(ss, token) == {s \in ss : s.userId # token.userId}

\* prisma.session.deleteMany({ where: { token } })
revokeRefreshToken(ss, token) == {s \in ss : s.token # token}

\* variant: the where clause reversed
revokeAllUserSessions_Inverted(ss, userId) == {s \in ss : s.userId = userId}

\* prisma.session.deleteMany({ where: { userId } })
revokeAllUserSessions(ss, userId) == {s \in ss : s.userId # userId}

\* prisma.session.findFirst({ where: { token } })
FindSessionByToken(ss, token) ==
  IF \E s \in ss : s.token = token
    THEN CHOOSE s \in ss : s.token = token
    ELSE NoSession

Logout(token) ==
  /\ LET remaining == revokeRefreshToken(sessions, token)
         session == FindSessionByToken(remaining, token)
     IN
     /\ sessions' = remaining
     /\ auditLog' = IF session # NoSession
                      THEN logAuditEvent(auditLog, session.userId, "USER_LOGOUT", "success: true")
                      ELSE auditLog
     /\ resp' = Response("logout", 200, "Logout successful", "none", NoTokens)
     /\ UNCHANGED <<auditStore, clock, users, nextSid>>
  /\ UNCHANGED <<inflight, loginStats, revision, env>>

\* ------------------------------------------------------------ middleware/auth.js
\* jwt.verify(token, JWT_SECRET, ...): signature, then the exp claim, then
\* the audience
verifyAccessToken(token, now) ==
  /\ token.secret = JWT_SECRET
  /\ Seconds(now) < token.exp
  /\ token.aud = JWT_AUDIENCE

\* authenticateToken: the 401 it answers, or "next" with req.user
Authenticate(us, bearer, now) ==
  IF bearer = NoToken
    THEN [next |-> FALSE, message |-> "Access token is required", userId |-> "none"]
  ELSE IF ~verifyAccessToken(bearer, now)
    THEN [next |-> FALSE, message |-> "Invalid or expired access token", userId |-> "none"]
  ELSE IF bearer.userId \notin DOMAIN us
    THEN [next |-> FALSE, message |-> "User not found", userId |-> "none"]
  ELSE IF us[bearer.userId].status # "ACTIVE"
    THEN [next |-> FALSE, message |-> "User account is not active", userId |-> "none"]
  ELSE [next |-> TRUE, message |-> "", userId |-> bearer.userId]

\* ------------------------------------------------------------ PUT /users/me/password
\* changePasswordSchema: newPassword min(8).max(128), both required
ChangePasswordValid(currentPassword, newPassword) ==
  currentPassword # "" /\ newPassword \notin {"", "short"}

\* validatePassword(newPassword).isValid
validatePassword(password) == password \in {"Str0ng!Pass", "0ther!Pass1"}

ChangePassword(bearer, currentPassword, newPassword) ==
  /\ LET auth == Authenticate(users, bearer, clock) IN
     IF ~auth.next
       THEN /\ resp' = Response("password", 401, auth.message, "none", NoTokens)
            /\ UNCHANGED <<auditStore, clock, users, sessions, nextSid, auditLog>>
     ELSE IF ~ChangePasswordValid(currentPassword, newPassword)
       THEN /\ resp' = Response("password", 400, "Validation failed", auth.userId, NoTokens)
            /\ UNCHANGED <<auditStore, clock, users, sessions, nextSid, auditLog>>
     ELSE
       LET user == users[auth.userId] IN
       IF ~ComparePassword(currentPassword, user.password)
         THEN /\ auditLog' = logAuditEvent(auditLog, user.id, "PASSWORD_CHANGE",
                                           "Invalid current password")
              /\ resp' = Response("password", 400, "Current password is incorrect",
                                  user.id, NoTokens)
              /\ UNCHANGED <<auditStore, clock, users, sessions, nextSid>>
       ELSE IF ~validatePassword(newPassword)
         THEN /\ resp' = Response("password", 400, "New password does not meet requirements",
                                  user.id, NoTokens)
              /\ UNCHANGED <<auditStore, clock, users, sessions, nextSid, auditLog>>
       ELSE IF ComparePassword(newPassword, user.password)
         THEN /\ resp' = Response("password", 400,
                                  "New password must be different from current password",
                                  user.id, NoTokens)
              /\ UNCHANGED <<auditStore, clock, users, sessions, nextSid, auditLog>>
       ELSE /\ users' = UserUpdate(users, user.id, [password |-> HashPassword(newPassword)])
            /\ sessions' = revokeAllUserSessions(sessions, user.id)
            /\ auditLog' = logAuditEvent(auditLog, user.id, "PASSWORD_CHANGE", "success: true")
            /\ resp' = Response("password", 200,
                                "Password changed successfully. Please log in again.",
                                user.id, NoTokens)
            /\ UNCHANGED <<auditStore, clock, nextSid>>
  /\ UNCHANGED <<inflight, loginStats, revision, env>>

\* ------------------------------------------------------------ DELETE /users/me/sessions
\* prisma.session.findFirst({ where: { userId } }): the rows it may return
FirstSessionsOf(ss, userId) ==
  IF \E s \in ss : s.userId = userId
    THEN {s \in ss : s.userId = userId}
    ELSE {NoSession}

\* prisma.session.deleteMany({ where: { userId, id: { not: currentSessionId } } })
DeleteSessionsExcept(ss, userId, currentSession) ==
  IF currentSession # NoSession
    THEN {s \in ss : ~(s.userId = userId /\ s.id # currentSession.id)}
    ELSE {s \in ss : s.userId # userId}

RevokeSessions(bearer) ==
  /\ LET auth == Authenticate(users, bearer, clock) IN
     IF ~auth.next
       THEN /\ resp' = Response("sessions", 401, auth.message, "none", NoTokens)
            /\ UNCHANGED <<auditStore, clock, users, sessions, nextSid, auditLog>>
       ELSE \E currentSession \in FirstSessionsOf(sessions, auth.userId) :
              /\ sessions' = DeleteSessionsExcept(sessions, auth.userId, currentSession)
              /\ auditLog' = logAuditEvent(auditLog, auth.userId, "ALL_SESSIONS_REVOKE",
                                           "revoked")
              /\ resp' = Response("sessions", 200, "sessions revoked successfully",
                                  auth.userId, NoTokens)
              /\ UNCHANGED <<auditStore, clock, users, nextSid>>
  /\ UNCHANGED <<inflight, loginStats, revision, env>>

\* ------------------------------------------------------------ environment
\* time passes
Tick ==
  /\ clock < MaxClock
  /\ clock' = clock + 1
  /\ UNCHANGED <<users, sessions, nextSid, auditStore, auditLog, resp>>
  /\ UNCHANGED <<inflight, loginStats, revision, env>>

\* PUT /users/:id/status: an administrator sets the status of an account
AdminSetStatus(id, status) ==
  /\ id \in DOMAIN users
  /\ users[id].status # status
  /\ users' = UserUpdate(users, id, [status |-> status])
  /\ UNCHANGED <<clock, sessions, nextSid, auditStore, auditLog, resp>>
  /\ UNCHANGED <<inflight, loginStats, revision, env>>

\* ------------------------------------------------------------ specification
\* a registered account: role CUSTOMER, status ACTIVE, counters at their defaults
RegisteredUser(id, email, password) ==
  [id |-> id, email |-> email, password |-> HashPassword(password),
   role |-> "CUSTOMER", status |-> "ACTIVE",
   loginAttempts |-> 0, lockedUntil |-> NoTime, lastLoginAt |-> NoTime]

NoResponse == [op |-> "none", code |-> 0]

InitStore ==
  /\ clock = 0
  /\ users = [id \in UserIds |->
                IF id = "u1" THEN RegisteredUser("u1", "a@x.com", "Str0ng!Pass")
                             ELSE RegisteredUser("u2", "b@x.com", "Str0ng!Pass")]
  /\ sessions = {}
  /\ nextSid = 1
  /\ auditLog = {}
  /\ resp = NoResponse
  /\ inflight = [r \in Requests |-> Idle]
  /\ loginStats = [failed |-> 0, succeeded |-> 0]
  /\ revision = "esm"

Init == InitStore /\ auditStore = "up" /\ env = DefaultEnv

\* the audit store is unavailable: every audit write fails and is swallowed
InitNoAudit == InitStore /\ auditStore = "down" /\ env = DefaultEnv

Next ==
  \/ Tick
  \/ \E st \in {"ACTIVE", "SUSPENDED"} : AdminSetStatus("u1", st)
  \/ \E e \in Emails \ {"b@x.com"}, p \in Passwords : Login(e, p, "ip1", "ua1")

Spec == Init /\ [][Next]_vars

\* ------------------------------------------------------------ session lifecycle
\* refresh tokens a client can present: one this service signed for a user at
\* some second up to now, or one signed with another key
RefreshTokenInputs(now) ==
  {[secret |-> JWT_REFRESH_SECRET, userId |-> u, aud |-> JWT_AUDIENCE, iat |-> i,
    exp |-> i + JWT_REFRESH_EXPIRES_IN] : u \in UserIds, i \in 0..Seconds(now)}
  \cup {[secret |-> "forged", userId |-> "u1", aud |-> JWT_AUDIENCE,
         iat |-> Seconds(now), exp |-> Seconds(now) + JWT_REFRESH_EXPIRES_IN]}

\* an access token of a user, minted at second iat
AccessTokenOf(us, u, secret, iat) ==
  [secret |-> secret, userId |-> u, email |-> us[u].email, role |-> us[u].role,
   status |-> "ACTIVE", aud |-> JWT_AUDIENCE, iat |-> iat, exp |-> iat + JWT_EXPIRES_IN]

\* bearer tokens a client can present: none, a forged one, an access token of
\* a user minted just now, or an old one minted at second 0
BearerInputs(us, now) ==
  {NoToken, AccessTokenOf(us, "u1", "forged", Seconds(now)),
   AccessTokenOf(us, "u1", JWT_SECRET, 0)}
  \cup {AccessTokenOf(us, u, JWT_SECRET, Seconds(now)) : u \in DOMAIN us}

\* request bodies of PUT /users/me/password
ChangePasswordInputs ==
  {<<"Str0ng!Pass", "0ther!Pass1">>, <<"0ther!Pass1", "Str0ng!Pass">>,
   <<"Str0ng!Pass", "Str0ng!Pass">>, <<"Str0ng!Pass", "weakpassword">>,
   <<"", "0ther!Pass1">>}

\* req.ip and the User-Agent header of a refresh request
ClientInputs == {<<"ip1", "ua1">>, <<"ip2", "">>}

\* clients log in with the password of the account
LoginWithCredentials(emails) ==
  \E e \in emails, p \in Passwords :
    /\ ComparePassword(p, FindUserByEmail(users, e).password)
    /\ Login(e, p, "ip1", "ua1")

\* sessions are issued, refreshed and revoked one by one while time passes and
\* an administrator suspends and reinstates an account
NextRefresh ==
  \/ Tick
  \/ \E st \in {"ACTIVE", "SUSPENDED"} : AdminSetStatus("u1", st)
  \/ LoginWithCredentials({"a@x.com"})
  \/ \E t \in RefreshTokenInputs(clock), c \in ClientInputs : Refresh(t, c[1], c[2])
  \/ \E t \in RefreshTokenInputs(clock) : Logout(t)

SpecRefresh == Init /\ [][NextRefresh]_vars

\* sessions are issued and users change their password or revoke their sessions
NextRevoke ==
  \/ Tick
  \/ LoginWithCredentials({"a@x.com", "b@x.com"})
  \/ \E b \in BearerInputs(users, clock), body \in ChangePasswordInputs :
       ChangePassword(b, body[1], body[2])
  \/ \E b \in BearerInputs(users, clock) : RevokeSessions(b)

SpecRevoke == InitNoAudit /\ [][NextRevoke]_vars

\* ------------------------------------------------------------ concurrent logins
\* POST /auth/login as the event loop runs it: the handler gives way to the
\* other requests at each await, so the row it read with findUnique may be
\* stale when it writes; loginStats counts the handlers that completed

\* await prisma.user.findUnique, the lock check and await comparePassword: the
\* branches that write nothing answer at once, the others go on with the row
\* they read
LoginBegin(r, email, password) ==
  /\ inflight[r] = Idle
  /\ loginStats.failed + loginStats.succeeded
       + Cardinality({q \in Requests : inflight[q] # Idle}) < MaxLogins
  /\ IsEmail(email) /\ password # ""
  /\ LET user == FindUserByEmail(users, ToLowerCase(email))
         outcome == LoginOutcome(user, password, clock)
     IN
     CASE outcome = "not_found" ->
            /\ auditLog' = logAuditEvent(auditLog, "none", "USER_LOGIN_FAILED",
                                          "User not found")
            /\ resp' = LoginResponse(401, "Invalid email or password", "none", NoTokens)
            /\ UNCHANGED inflight
       [] outcome = "locked" ->
            /\ auditLog' = logAuditEvent(auditLog, user.id, "USER_LOGIN_FAILED",
                                          "Account locked")
            /\ resp' = LoginResponse(423,
                 "Account is temporarily locked due to too many failed login attempts",
                 "none", NoTokens)
            /\ UNCHANGED inflight
       [] outcome = "not_active" ->
            /\ auditLog' = logAuditEvent(auditLog, user.id, "USER_LOGIN_FAILED",
                                          "Account not active")
            /\ resp' = LoginResponse(401, "Account is not active", "none", NoTokens)
            /\ UNCHANGED inflight
       [] outcome = "bad_password" ->
            /\ inflight' = [inflight EXCEPT ![r] = [pc |-> "failed", user |-> user]]
            /\ UNCHANGED <<auditLog, resp>>
       [] outcome = "ok" ->
            /\ inflight' = [inflight EXCEPT ![r] = [pc |-> "reset", user |-> user]]
            /\ UNCHANGED <<auditLog, resp>>
  /\ UNCHANGED <<auditStore, clock, users, sessions, nextSid, loginStats, revision, env>>

\* the failure branch: await prisma.user.update with updateData computed from
\* the row read earlier, then the 401
LoginFailed(r) ==
  /\ inflight[r].pc = "failed"
  /\ LET user == inflight[r].user IN
     /\ users' = UserUpdate(users, user.id, FailedLoginData(user, clock))
     /\ auditLog' = logAuditEvent(auditLog, user.id, "USER_LOGIN_FAILED",
          IF user.loginAttempts + 1 >= MAX_LOGIN_ATTEMPTS
            THEN "locked: true" ELSE "locked: false")
  /\ resp' = LoginResponse(401, "Invalid email or password", "none", NoTokens)
  /\ inflight' = [inflight EXCEPT ![r] = Idle]
  /\ loginStats' = [loginStats EXCEPT !.failed = @ + 1]
  /\ UNCHANGED <<auditStore, clock, sessions, nextSid, revision, env>>

\* the success branch: await prisma.user.update that resets the counters
LoginReset(r) ==
  /\ inflight[r].pc = "reset"
  /\ users' = UserUpdate(users, inflight[r].user.id, SuccessLoginData(clock))
  /\ inflight' = [inflight EXCEPT ![r].pc = "tokens"]
  /\ UNCHANGED <<auditStore, clock, sessions, nextSid, auditLog, resp, loginStats, revision, env>>

\* await generateTokenPair(user, ...), then the 200
LoginTokens(r) ==
  /\ inflight[r].pc = "tokens"
  /\ nextSid <= MaxSessions
  /\ LET user == inflight[r].user
         row == NewSession(nextSid, user, clock, "ip1", "ua1")
     IN
     IF TokenTaken(sessions, row.token)
       THEN /\ resp' = LoginResponse(500, "Internal server error", "none", NoTokens)
            /\ UNCHANGED <<sessions, nextSid, auditLog>>
       ELSE /\ sessions' = sessions \cup {row}
            /\ nextSid' = nextSid + 1
            /\ auditLog' = logAuditEvent(auditLog, user.id, "USER_LOGIN", "success: true")
            /\ resp' = WithUser(
                 LoginResponse(200, "Login successful", user.id,
                          <<generateAccessToken(TokenPayload(user), clock), row.token>>),
                 Select(user, UserData))
  /\ inflight' = [inflight EXCEPT ![r] = Idle]
  /\ loginStats' = [loginStats EXCEPT !.succeeded = @ + 1]
  /\ UNCHANGED <<auditStore, clock, users, revision, env>>

\* up to two login requests for the account a@x.com are in flight while time
\* passes
NextRace ==
  \/ Tick
  \/ \E r \in Requests, p \in Passwords : LoginBegin(r, "a@x.com", p)
  \/ \E r \in Requests : LoginFailed(r)
  \/ \E r \in Requests : LoginReset(r)
  \/ \E r \in Requests : LoginTokens(r)

SpecRace == InitNoAudit /\ [][NextRace]_vars

\* ------------------------------------------------------------ login against password change
\* logins for a@x.com are in flight while the owner of the account changes the
\* password; PUT /users/me/password runs between two awaits of a login
NextPasswordRace ==
  \/ \E r \in Requests, p \in {"Str0ng!Pass", "0ther!Pass1"} : LoginBegin(r, "a@x.com", p)
  \/ \E r \in Requests : LoginFailed(r)
  \/ \E r \in Requests : LoginReset(r)
  \/ \E r \in Requests : LoginTokens(r)
  \/ \E b \in {NoToken, AccessTokenOf(users, "u1", JWT_SECRET, 0)} :
       ChangePassword(b, "Str0ng!Pass", "0ther!Pass1")

SpecPasswordRace == InitNoAudit /\ [][NextPasswordRace]_vars

\* ------------------------------------------------------------ concurrent refresh
\* POST /auth/refresh as the event loop runs it: refreshAccessToken gives way
\* at await prisma.session.findFirst and at await prisma.session.update, so a
\* logout can delete the row between the two

\* verifyRefreshToken, await findFirst and the status check: a refusal is
\* answered at once, otherwise the handler goes on with the row it read
RefreshBegin(r, token, ipAddress, userAgent) ==
  /\ inflight[r] = Idle
  /\ LET outcome == RefreshOutcome(sessions, users, token, clock) IN
     IF outcome = "ok"
       THEN /\ inflight' = [inflight EXCEPT ![r] =
                 [pc |-> "update", token |-> token,
                  session |-> FindLiveSession(sessions, token, token.userId, clock),
                  user |-> users[token.userId],
                  accessToken |-> generateAccessToken(
                     TokenPayload(users[token.userId]), clock),
                  ipAddress |-> ipAddress, userAgent |-> userAgent]]
            /\ UNCHANGED <<auditLog, resp>>
       ELSE LET message == IF outcome = "not_active"
                             THEN "User account is not active"
                             ELSE "Invalid or expired refresh token"
            IN
            /\ auditLog' = logAuditEvent(auditLog, "none", "TOKEN_REFRESH", message)
            /\ resp' = Response("refresh", 401, message, "none", NoTokens)
            /\ UNCHANGED inflight
  /\ UNCHANGED <<auditStore, clock, users, sessions, nextSid, loginStats, revision, env>>

\* await prisma.session.update({ where: { id: session.id }, data }): the store
\* throws when no row has that id, and the route's catch answers 401 with the
\* message of the error; otherwise the row is updated and the tokens returned
RefreshUpdate(r) ==
  /\ inflight[r].pc = "update"
  /\ LET req == inflight[r]
         rows == {s \in sessions : s.id = req.session.id}
     IN
     IF (req.ipAddress # "" \/ req.userAgent # "") /\ rows = {}
       THEN /\ auditLog' = logAuditEvent(auditLog, "none", "TOKEN_REFRESH",
                                          "Record to update not found.")
            /\ resp' = Response("refresh", 401, "Record to update not found.",
                                "none", NoTokens)
            /\ UNCHANGED sessions
       ELSE /\ sessions' = IF rows = {} THEN sessions
                           ELSE TouchSession(sessions, CHOOSE s \in rows : TRUE,
                                  IF req.ipAddress # "" THEN req.ipAddress
                                                        ELSE req.session.ipAddress,
                                  IF req.userAgent # "" THEN req.userAgent
                                                        ELSE req.session.userAgent)
            /\ auditLog' = logAuditEvent(auditLog, req.session.userId, "TOKEN_REFRESH",
                                          "success: true")
            /\ resp' = WithUser(
                 Response("refresh", 200, "Token refreshed successfully",
                          req.session.userId, <<req.accessToken, req.token>>),
                 Select(req.user, UserData))
  /\ inflight' = [inflight EXCEPT ![r] = Idle]
  /\ UNCHANGED <<auditStore, clock, users, nextSid, loginStats, revision, env>>

\* refreshes of the sessions of a@x.com run while clients log out
NextRefreshRace ==
  \/ Tick
  \/ LoginWithCredentials({"a@x.com"})
  \/ \E r \in Requests, t \in RefreshTokenInputs(clock), c \in ClientInputs :
       RefreshBegin(r, t, c[1], c[2])
  \/ \E r \in Requests : RefreshUpdate(r)
  \/ \E t \in RefreshTokenInputs(clock) : Logout(t)

SpecRefreshRace == InitNoAudit /\ [][NextRefreshRace]_vars

\* ------------------------------------------------------------ administration
\* The repository holds two revisions of the middleware and of the user
\* routes: "esm" (authenticateToken of part_003, routes/users.js; User.status,
\* default role CUSTOMER) and "cjs" (middleware/auth.js, the user routes of
\* part_002, lib/jwt.js of part_009; User.isActive, default role USER).  A
\* deployment runs one of them; revision says which.
Revisions == {"esm", "cjs"}

\* the accounts of the store, and an id no row has
AdminIds == {"u1", "u2"}
UnknownId == "u3"

\* the role a registration gives
DefaultRole == IF revision = "esm" THEN "CUSTOMER" ELSE "USER"

\* ['CUSTOMER' | 'USER', 'ADMIN', 'SUPER_ADMIN'].includes(role)
ValidRoles == {DefaultRole, "ADMIN", "SUPER_ADMIN"}

\* an Authorization header that is not of the form 'Bearer <token>'
MalformedHeader == [typ |-> "malformed"]

\* variant: the token's own role claim is taken as the user's role
AttachedUser_TokenRole(us, header) ==
  [us[header.userId] EXCEPT !.role = header.role]

\* req.user = user: the row authenticateToken read from the store
AttachedUser(us, header) == us[header.userId]

\* jwt.sign(payload, JWT_SECRET, { expiresIn, issuer, audience }) of revision cjs
generateToken(payload, now) ==
  [secret |-> JWT_SECRET, userId |-> payload.userId, email |-> payload.email,
   role |-> payload.role, aud |-> JWT_AUDIENCE,
   iat |-> Seconds(now), exp |-> Seconds(now) + JWT_EXPIRES_IN]

\* variant: the audience of the token is not looked at
verifyToken_AnyAudience(token, now) ==
  IF token.secret # JWT_SECRET THEN "Invalid authentication token"
  ELSE IF ~(Seconds(now) < token.exp) THEN "Authentication token has expired"
  ELSE ""

\* jwt.verify of revision cjs: the message of the error it throws, "" if
\* none.  jsonwebtoken checks the signature (JsonWebTokenError), then exp
\* (TokenExpiredError), then audience and issuer (JsonWebTokenError)
verifyToken(token, now) ==
  IF token.secret # JWT_SECRET THEN "Invalid authentication token"
  ELSE IF ~(Seconds(now) < token.exp) THEN "Authentication token has expired"
  ELSE IF token.aud # JWT_AUDIENCE THEN "Invalid authentication token"
  ELSE ""

\* authHeader && authHeader.split(' ')[1] of revision esm
BearerTokenOf(header) ==
  IF header \in {NoToken, MalformedHeader} THEN NoToken ELSE header

\* variant: a deactivated account is admitted
authenticateToken_NoActiveCheck(us, header, now) ==
  IF header = NoToken
    THEN [next |-> FALSE, message |-> "Access denied. No authentication token provided.",
          userId |-> "none"]
  ELSE IF header = MalformedHeader
    THEN [next |-> FALSE, message |-> "Authorization header must start with \"Bearer \"",
          userId |-> "none"]
  ELSE IF verifyToken(header, now) # ""
    THEN [next |-> FALSE, message |-> verifyToken(header, now), userId |-> "none"]
  ELSE IF header.userId \notin DOMAIN us
    THEN [next |-> FALSE, message |-> "Access denied. User not found.", userId |-> "none"]
  ELSE [next |-> TRUE, message |-> "", userId |-> header.userId]

\* authenticateToken of revision cjs: the 401 it answers, or "next" with req.user
authenticateToken(us, header, now) ==
  IF header = NoToken
    THEN [next |-> FALSE, message |-> "Access denied. No authentication token provided.",
          userId |-> "none"]
  ELSE IF header = MalformedHeader
    THEN [next |-> FALSE, message |-> "Authorization header must start with \"Bearer \"",
          userId |-> "none"]
  ELSE IF verifyToken(header, now) # ""
    THEN [next |-> FALSE, message |-> verifyToken(header, now), userId |-> "none"]
  ELSE IF header.userId \notin DOMAIN us
    THEN [next |-> FALSE, message |-> "Access denied. User not found.", userId |-> "none"]
  ELSE IF ~us[header.userId].isActive
    THEN [next |-> FALSE, message |-> "Access denied. Account is deactivated.",
          userId |-> "none"]
  ELSE [next |-> TRUE, message |-> "", userId |-> header.userId]

\* the authenticateToken of the deployed revision
Authenticated(header) ==
  IF revision = "esm"
    THEN Authenticate(users, BearerTokenOf(header), clock)
    ELSE authenticateToken(users, header, clock)

\* variant: any attached user is let through
requireRole_AnyUser(roles, user) ==
  IF user = NoUser THEN 401 ELSE 0

\* requireRole(...roles): 0 for next(), or the status code it answers
requireRole(roles, user) ==
  IF user = NoUser THEN 401
  ELSE IF user.role \notin roles THEN 403
  ELSE 0

\* requireRole('ADMIN', 'SUPER_ADMIN')
requireAdmin(user) == requireRole({"ADMIN", "SUPER_ADMIN"}, user)

\* requireRole('SUPER_ADMIN')
requireSuperAdmin(user) == requireRole({"SUPER_ADMIN"}, user)

\* the wording of an answer in the deployed revision
Message(esm, cjs) == IF revision = "esm" THEN esm ELSE cjs

\* the message of a role gate's answer
GateMessage(code) ==
  IF revision = "esm"
    THEN (IF code = 401 THEN "Authentication required" ELSE "Insufficient permissions")
    ELSE (IF code = 401 THEN "Authentication required."
                        ELSE "Access denied. Insufficient permissions.")

\* authenticateToken, then a role gate: what the chain answers, or the caller
\* it lets through to the handler
Guarded(header, superAdminOnly) ==
  LET auth == Authenticated(header) IN
  IF ~auth.next
    THEN [next |-> FALSE, code |-> 401, message |-> auth.message, userId |-> "none"]
    ELSE LET user == AttachedUser(users, header)
             gate == IF superAdminOnly THEN requireSuperAdmin(user)
                                       ELSE requireAdmin(user)
         IN
         IF gate # 0
           THEN [next |-> FALSE, code |-> gate, message |-> GateMessage(gate),
                 userId |-> user.id]
           ELSE [next |-> TRUE, code |-> 0, message |-> "", userId |-> user.id]

\* the catch of authenticateToken of revision cjs logs AUTH_FAILED
GuardAudit(header) ==
  IF revision = "cjs" /\ header # NoToken
       /\ (header = MalformedHeader \/ verifyToken(header, clock) # "")
    THEN logAuditEvent(auditLog, "none", "AUTH_FAILED",
                       authenticateToken(users, header, clock).message)
    ELSE auditLog

\* a request the middleware chain answered itself
Rejected(op, guard, header) ==
  /\ resp' = Response(op, guard.code, guard.message, guard.userId, NoTokens)
  /\ auditLog' = GuardAudit(header)
  /\ UNCHANGED users

\* a request the handler answered without writing
Answered(op, code, message, caller) ==
  /\ resp' = Response(op, code, message, caller, NoTokens)
  /\ UNCHANGED <<users, auditLog>>

\* res.json({ ..., data: { users, ... } }): a response that carries users
WithUsers(response, rows) ==
  [f \in DOMAIN response \cup {"users"} |->
     IF f = "users" THEN rows ELSE response[f]]

\* the select of prisma.user.findMany in GET /users
ListSelect ==
  IF revision = "esm" THEN {"id", "email", "role", "status", "lastLoginAt"}
                      ELSE {"id", "email", "role", "isActive"}

\* the select of prisma.user.update in PUT /users/:id/role
RoleSelect ==
  IF revision = "esm" THEN {"id", "email", "role", "status"}
                      ELSE {"id", "email", "role"}

\* the select of prisma.user.update in PUT /users/:id/status
StatusSelect == {"id", "email", "role", "isActive"}

\* GET /users: authenticateToken, requireAdmin (both revisions)
ListUsers(header) ==
  /\ LET guard == Guarded(header, FALSE) IN
     IF ~guard.next
       THEN Rejected("list", guard, header)
       ELSE /\ resp' = WithUsers(Response("list", 200, "", guard.userId, NoTokens),
                              {Select(users[u], ListSelect) : u \in DOMAIN users})
            /\ auditLog' = IF revision = "esm" THEN auditLog
                            ELSE logAuditEvent(auditLog, guard.userId, "USERS_LISTED", "")
            /\ UNCHANGED users
  /\ UNCHANGED <<clock, sessions, nextSid, auditStore, inflight, loginStats, revision, env>>

\* variant: the comparison with the caller's own id is missing
IsSelf_Never(id, callerId) == FALSE

\* user.id === req.user.id
IsSelf(id, callerId) == id = callerId

\* PUT /users/:id/role is behind requireAdmin in revision esm and behind
\* requireSuperAdmin in revision cjs
RoleGateIsSuperAdmin == revision = "cjs"

\* PUT /users/:id/role
UpdateRole(header, id, role) ==
  /\ LET guard == Guarded(header, RoleGateIsSuperAdmin) IN
     IF ~guard.next
       THEN Rejected("role", guard, header)
     ELSE IF role \notin ValidRoles
       THEN Answered("role", 400,
              Message("Invalid role", "Invalid role. Must be USER, ADMIN, or SUPER_ADMIN."),
              guard.userId)
     ELSE IF id \notin DOMAIN users
       THEN Answered("role", 404, Message("User not found", "User not found."), guard.userId)
     ELSE IF IsSelf(id, guard.userId)
       THEN Answered("role", 400,
              Message("Cannot change your own role", "You cannot change your own role."),
              guard.userId)
     ELSE /\ users' = UserUpdate(users, id, [role |-> role])
          /\ auditLog' = logAuditEvent(auditLog, guard.userId,
                            IF revision = "esm" THEN "ROLE_CHANGE" ELSE "ROLE_CHANGED", id)
          /\ resp' = WithUser(
               Response("role", 200, "User role updated successfully",
                        guard.userId, NoTokens),
               Select(users'[id], RoleSelect))
  /\ UNCHANGED <<clock, sessions, nextSid, auditStore, inflight, loginStats, revision, env>>

\* variant: an ADMIN may deactivate another ADMIN
AdminProtected_Never(target, caller) == FALSE

\* currentUser.role === 'ADMIN' && req.user.role !== 'SUPER_ADMIN'
AdminProtected(target, caller) ==
  target.role = "ADMIN" /\ caller.role # "SUPER_ADMIN"

\* PUT /users/:id/status of revision cjs: body is the request body
UpdateStatus(header, id, body) ==
  /\ revision = "cjs"
  /\ LET guard == Guarded(header, FALSE) IN
     IF ~guard.next
       THEN Rejected("status", guard, header)
     ELSE IF "isActive" \notin DOMAIN body
       THEN Answered("status", 400, "isActive must be a boolean value.", guard.userId)
     ELSE IF id \notin DOMAIN users
       THEN Answered("status", 404, "User not found.", guard.userId)
     ELSE IF IsSelf(id, guard.userId)
       THEN Answered("status", 400, "You cannot deactivate your own account.",
                     guard.userId)
     ELSE IF AdminProtected(users[id], users[guard.userId])
       THEN Answered("status", 403, "Only Super Admins can deactivate Admin accounts.",
                     guard.userId)
     ELSE /\ users' = UserUpdate(users, id, [isActive |-> body.isActive])
          /\ auditLog' = logAuditEvent(auditLog, guard.userId,
                            IF body.isActive THEN "USER_ACTIVATED" ELSE "USER_DEACTIVATED",
                            id)
          /\ resp' = WithUser(
               Response("status", 200,
                        IF body.isActive THEN "User activated successfully"
                                         ELSE "User deactivated successfully",
                        guard.userId, NoTokens),
               Select(users'[id], StatusSelect))
  /\ UNCHANGED <<clock, sessions, nextSid, auditStore, inflight, loginStats, revision, env>>

\* DELETE /users/:id of revision cjs
DeleteUser(header, id) ==
  /\ revision = "cjs"
  /\ LET guard == Guarded(header, TRUE) IN
     IF ~guard.next
       THEN Rejected("delete", guard, header)
     ELSE IF id \notin DOMAIN users
       THEN Answered("delete", 404, "User not found.", guard.userId)
     ELSE IF IsSelf(id, guard.userId)
       THEN Answered("delete", 400, "You cannot delete your own account.", guard.userId)
     ELSE /\ users' = [u \in DOMAIN users \ {id} |-> users[u]]
          /\ auditLog' = logAuditEvent(auditLog, guard.userId, "USER_DELETED", id)
          /\ resp' = Response("delete", 200, "User deleted successfully",
                              guard.userId, NoTokens)
  /\ UNCHANGED <<clock, sessions, nextSid, auditStore, inflight, loginStats, revision, env>>

\* variant: an invalid token is answered 401, as authenticateToken does
optionalAuth_Rejects(us, header, now, lookupFails) ==
  IF BearerTokenOf(header) = NoToken
    THEN [calls |-> <<"next">>, userId |-> "none"]
  ELSE IF header.secret # JWT_SECRET \/ ~(Seconds(now) < header.exp)
    THEN [calls |-> <<"res.401">>, userId |-> "none"]
  ELSE [calls |-> <<"next">>, userId |-> "none"]

\* optionalAuth: what it calls, and the user it attaches; lookupFails says
\* that prisma.user.findUnique throws.  In both revisions every path ends in
\* one next(): from the try block, or from the catch
optionalAuth(us, header, now, lookupFails) ==
  IF header = NoToken \/ (revision = "esm" /\ header = MalformedHeader)
    THEN [calls |-> <<"next">>, userId |-> "none"]
  ELSE IF header = MalformedHeader
    THEN [calls |-> <<"next">>, userId |-> "none"]
  ELSE IF header.secret # JWT_SECRET \/ ~(Seconds(now) < header.exp)
            \/ header.aud # JWT_AUDIENCE
    THEN [calls |-> <<"next">>, userId |-> "none"]
  ELSE IF lookupFails
    THEN [calls |-> <<"next">>, userId |-> "none"]
  ELSE IF /\ header.userId \in DOMAIN us
          /\ (IF revision = "esm" THEN us[header.userId].status = "ACTIVE"
                                  ELSE us[header.userId].isActive)
    THEN [calls |-> <<"next">>, userId |-> header.userId]
  ELSE [calls |-> <<"next">>, userId |-> "none"]

\* a request through optionalAuth: resp records what the middleware did
OptionalAuthRequest(header, lookupFails) ==
  /\ LET done == optionalAuth(users, header, clock, lookupFails) IN
     resp' = [op |-> "optionalAuth", code |-> 0, calls |-> done.calls,
              userId |-> done.userId, header |-> header, lookupFails |-> lookupFails]
  /\ UNCHANGED <<clock, users, sessions, nextSid, auditStore, auditLog,
                 inflight, loginStats, revision, env>>

\* a user row of revision cjs
Account_cjs(id, email, role) ==
  [id |-> id, email |-> email, password |-> HashPassword("Str0ng!Pass"),
   role |-> role, isActive |-> TRUE]

\* the store of a deployment: the administrator u2 and an account u1 of any
\* role, both active
InitAdmin ==
  /\ env = DefaultEnv
  /\ revision \in Revisions
  /\ \E roles \in [AdminIds -> {"CUSTOMER", "USER", "ADMIN", "SUPER_ADMIN"}] :
       /\ roles["u1"] \in ValidRoles
       /\ roles["u2"] = "ADMIN"
       /\ users = [id \in AdminIds |->
            IF revision = "esm"
              THEN [RegisteredUser(id, IF id = "u1" THEN "a@x.com" ELSE "b@x.com",
                                   "Str0ng!Pass") EXCEPT !.role = roles[id]]
              ELSE Account_cjs(id, IF id = "u1" THEN "a@x.com" ELSE "b@x.com", roles[id])]
  /\ clock = 0
  /\ sessions = {}
  /\ nextSid = 1
  /\ auditStore = "down"
  /\ auditLog = {}
  /\ resp = NoResponse
  /\ inflight = [r \in Requests |-> Idle]
  /\ loginStats = [failed |-> 0, succeeded |-> 0]

\* an access token of the deployed revision for userId with the given role
\* claim, minted at tick t
AdminToken(userId, role, secret, t) ==
  LET email == IF userId = "u1" THEN "a@x.com" ELSE "b@x.com" IN
  IF revision = "esm"
    THEN [generateAccessToken([userId |-> userId, email |-> email, role |-> role,
                               status |-> "ACTIVE"], t) EXCEPT !.secret = secret]
    ELSE [generateToken([userId |-> userId, email |-> email, role |-> role], t)
            EXCEPT !.secret = secret]

\* Authorization headers a client can send: none, a malformed one, a forged
\* token, a token that has expired, and unexpired tokens of the accounts and of
\* an id that has no row, whose role claim may be stale
AdminHeaders ==
  {NoToken, MalformedHeader,
   AdminToken("u1", "ADMIN", "forged", clock),
   AdminToken("u1", "ADMIN", JWT_SECRET, clock - JWT_EXPIRES_IN * TicksPerSec),
   AdminToken("u1", DefaultRole, JWT_SECRET, clock)}
  \cup {AdminToken(u, "ADMIN", JWT_SECRET, clock) : u \in AdminIds \cup {UnknownId}}

\* role of the body of PUT /users/:id/role
RoleInputs == ValidRoles \cup {"ROOT"}

\* bodies of PUT /users/:id/status
StatusInputs == {[isActive |-> TRUE], [isActive |-> FALSE], [active |-> "yes"]}

NextAdmin ==
  \/ \E h \in AdminHeaders : ListUsers(h)
  \/ \E h \in AdminHeaders, id \in AdminIds \cup {UnknownId}, role \in RoleInputs :
       UpdateRole(h, id, role)
  \/ \E h \in AdminHeaders, id \in AdminIds \cup {UnknownId}, body \in StatusInputs :
       UpdateStatus(h, id, body)
  \/ \E h \in AdminHeaders, id \in AdminIds \cup {UnknownId} : DeleteUser(h, id)
  \/ \E h \in AdminHeaders, lookupFails \in BOOLEAN : OptionalAuthRequest(h, lookupFails)
  \/ revision = "esm" /\ \E id \in AdminIds, st \in {"ACTIVE", "SUSPENDED"} :
       AdminSetStatus(id, st)

SpecAdmin == InitAdmin /\ [][NextAdmin]_vars

\* ------------------------------------------------------------ registration
\* the registration handlers of the repository: routes/auth.js (esm),
\* routes/auth.js of the CommonJS generation with lib/validation.js (cjs) and
\* routes/auth-updated.js with lib/validation-updated.js (cjs_updated)
RegisterRevisions == {"esm", "cjs", "cjs_updated"}

\* accounts the store can hold
MaxUsers == 2

\* ids the store gives to new rows, in order
NewUserIds == <<"u1", "u2", "u3">>

\* @default(cuid()): an id no row has
NextUserId(us) ==
  NewUserIds[CHOOSE i \in 1..Len(NewUserIds) :
               /\ NewUserIds[i] \notin DOMAIN us
               /\ \A j \in 1..(i - 1) : NewUserIds[j] \in DOMAIN us]

\* registerSchema: email is an email, password min(8).max(128)
RegisterValid(email, password) == IsEmail(email) /\ password \notin {"", "short"}

\* req.body.email as the handler reads it.  validateRequest of
\* lib/validation.js replaces req.body by the value Joi converted (trimmed,
\* lower case); validateRequest of lib/validation-updated.js validates and
\* leaves req.body as the client sent it; the schema of revision esm does not
\* convert
BodyEmail(email) ==
  IF revision = "cjs" THEN ToLowerCase(email) ELSE email

\* the email the handler looks up and stores: email.toLowerCase() in
\* revision esm, req.body.email in the others
RegisterEmail(email) ==
  IF revision = "esm" THEN ToLowerCase(BodyEmail(email)) ELSE BodyEmail(email)

\* prisma.user.create of the CommonJS handlers: role USER, isActive defaults
\* to true
RegisteredAccount(id, email, password) ==
  [id |-> id, email |-> email, password |-> HashPassword(password),
   role |-> "USER", isActive |-> TRUE]

\* the row a registration creates
NewUser(id, email, password) ==
  IF revision = "esm" THEN RegisteredUser(id, email, password)
                      ELSE RegisteredAccount(id, email, password)

\* the select of prisma.user.create in the registration handlers
RegisterSelect ==
  CASE revision = "esm" -> {"id", "email", "role", "status"}
    [] revision = "cjs" -> {"id", "email", "role"}
    [] OTHER -> {"id", "email", "role", "isActive"}

\* the answer to a registration whose email is in use
DuplicateEmailResponse ==
  CASE revision = "esm" ->
         Response("register", 409, "User with this email already exists", "none", NoTokens)
    [] revision = "cjs" ->
         Response("register", 400, "A user with this email address already exists.",
                  "none", NoTokens)
    [] OTHER ->
         Response("register", 400,
                  "Ein Benutzer mit dieser E-Mail-Adresse existiert bereits.",
                  "none", NoTokens)

\* the answer to a registration whose password validatePassword refuses
WeakPasswordResponse ==
  Response("register", 400,
           IF revision = "cjs_updated" THEN "Passwort erfüllt nicht die Anforderungen"
                                       ELSE "Password does not meet requirements",
           "none", NoTokens)

\* the handler found a row with the email
RegisterDuplicate ==
  /\ auditLog' = logAuditEvent(auditLog, "none",
                    IF revision = "esm" THEN "USER_REGISTER" ELSE "AUTH_FAILED",
                    "Email already exists")
  /\ resp' = DuplicateEmailResponse
  /\ UNCHANGED <<users, sessions, nextSid>>

\* the handler creates the row, issues the tokens and answers 201
RegisterCreate(email, password, ipAddress, userAgent) ==
  LET id == NextUserId(users)
      user == NewUser(id, RegisterEmail(email), password)
  IN
  /\ users' = [u \in DOMAIN users \cup {id} |-> IF u = id THEN user ELSE users[u]]
  /\ IF revision = "esm"
       THEN LET row == NewSession(nextSid, user, clock, ipAddress, userAgent) IN
            IF TokenTaken(sessions, row.token)
              THEN /\ resp' = Response("register", 500, "Internal server error",
                                       "none", NoTokens)
                   /\ UNCHANGED <<sessions, nextSid, auditLog>>
              ELSE /\ sessions' = sessions \cup {row}
                   /\ nextSid' = nextSid + 1
                   /\ auditLog' = logAuditEvent(auditLog, id, "USER_REGISTER", "success: true")
                   /\ resp' = WithUser(
                        Response("register", 201, "User registered successfully", id,
                                 <<generateAccessToken(TokenPayload(user), clock), row.token>>),
                        Select(user, RegisterSelect))
       ELSE /\ auditLog' = logAuditEvent(auditLog, id, "USER_REGISTERED", user.email)
            /\ resp' = WithUser(
                 Response("register", 201,
                          IF revision = "cjs" THEN "User registered successfully"
                                              ELSE "Registrierung erfolgreich abgeschlossen",
                          id,
                          <<generateToken([userId |-> id, email |-> user.email,
                                           role |-> user.role], clock), NoToken>>),
                 Select(user, RegisterSelect))
            /\ UNCHANGED <<sessions, nextSid>>

\* POST /auth/register.  Revision esm validates the body, then the password
\* strength, then looks for the email; the CommonJS handlers look for the
\* email before they call validatePassword
Register(email, password, ipAddress, userAgent) ==
  /\ Cardinality(DOMAIN users) < MaxUsers
  /\ revision = "esm" => nextSid <= MaxSessions
  /\ LET existing == FindUserByEmail(users, RegisterEmail(email)) IN
     IF ~RegisterValid(email, password)
       THEN /\ resp' = Response("register", 400, "Validation failed", "none", NoTokens)
            /\ UNCHANGED <<users, sessions, nextSid, auditLog>>
     ELSE IF revision = "esm"
       THEN IF ~validatePassword(password)
              THEN /\ resp' = WeakPasswordResponse
                   /\ UNCHANGED <<users, sessions, nextSid, auditLog>>
            ELSE IF existing # NoUser
              THEN RegisterDuplicate
            ELSE RegisterCreate(email, password, ipAddress, userAgent)
     ELSE IF existing # NoUser
       THEN RegisterDuplicate
     ELSE IF ~validatePassword(password)
       THEN /\ resp' = WeakPasswordResponse
            /\ UNCHANGED <<users, sessions, nextSid, auditLog>>
     ELSE RegisterCreate(email, password, ipAddress, userAgent)
  /\ UNCHANGED <<clock, auditStore, inflight, loginStats, revision, env>>

\* POST /auth/login of the CommonJS handlers: no lockout, no session
LoginCjs(email, password) ==
  /\ revision # "esm"
  /\ IF ~IsEmail(email) \/ password = ""
       THEN /\ resp' = LoginResponse(400, "Validation failed", "none", NoTokens)
            /\ UNCHANGED auditLog
       ELSE
         LET user == FindUserByEmail(users, BodyEmail(email)) IN
         IF user = NoUser
           THEN /\ auditLog' = logAuditEvent(auditLog, "none", "AUTH_FAILED", "User not found")
                /\ resp' = LoginResponse(401,
                     IF revision = "cjs" THEN "Invalid email or password."
                                         ELSE "Ungültige Anmeldedaten",
                     "none", NoTokens)
         ELSE IF ~user.isActive
           THEN /\ auditLog' = logAuditEvent(auditLog, user.id, "AUTH_FAILED",
                                             "Account deactivated")
                /\ resp' = LoginResponse(401,
                     IF revision = "cjs" THEN "Account is deactivated. Please contact support."
                                         ELSE "Ihr Account wurde deaktiviert",
                     "none", NoTokens)
         ELSE IF ~ComparePassword(password, user.password)
           THEN /\ auditLog' = logAuditEvent(auditLog, user.id, "AUTH_FAILED",
                                             "Invalid password")
                /\ resp' = LoginResponse(401,
                     IF revision = "cjs" THEN "Invalid email or password."
                                         ELSE "Ungültige Anmeldedaten",
                     "none", NoTokens)
         ELSE /\ auditLog' = logAuditEvent(auditLog, user.id, "USER_LOGIN", user.email)
              /\ resp' = WithUser(
                   LoginResponse(200,
                     IF revision = "cjs" THEN "Login successful" ELSE "Anmeldung erfolgreich",
                     user.id,
                     <<generateToken([userId |-> user.id, email |-> user.email,
                                      role |-> user.role], clock), NoToken>>),
                   Select(user, DOMAIN user \ {"password"}))
  /\ UNCHANGED <<clock, users, sessions, nextSid, auditStore, inflight, loginStats, revision, env>>

\* a login request of the deployed revision
LoginRequest(email, password) ==
  IF revision = "esm" THEN Login(email, password, "ip1", "ua1")
                      ELSE LoginCjs(email, password)

\* an administrator deactivates or reactivates an account of the CommonJS
\* generation (PUT /users/:id/status, seen from the store)
SetActive(id, isActive) ==
  /\ revision # "esm"
  /\ id \in DOMAIN users
  /\ users[id].isActive # isActive
  /\ users' = UserUpdate(users, id, [isActive |-> isActive])
  /\ UNCHANGED <<clock, sessions, nextSid, auditStore, auditLog, resp,
                 inflight, loginStats, revision, env>>

\* the store of a new deployment: no account, no session; the audit store is
\* not reachable
InitRegister ==
  /\ env = DefaultEnv
  /\ revision \in RegisterRevisions
  /\ clock = 0
  /\ users = [id \in {} |-> NoUser]
  /\ sessions = {}
  /\ nextSid = 1
  /\ auditStore = "down"
  /\ auditLog = {}
  /\ resp = NoResponse
  /\ inflight = [r \in Requests |-> Idle]
  /\ loginStats = [failed |-> 0, succeeded |-> 0]

\* emails and passwords clients register and log in with
RegisterEmails == {"a@x.com", "A@X.com", "not-an-email"}
RegisterPasswords == {"Str0ng!Pass", "weakpassword", ""}

NextRegister ==
  \/ Tick
  \/ \E e \in RegisterEmails, p \in RegisterPasswords : Register(e, p, "ip1", "ua1")
  \/ revision = "esm" /\ \E e \in RegisterEmails, p \in RegisterPasswords :
       Login(e, p, "ip1", "ua1")
  \/ \E e \in RegisterEmails, p \in RegisterPasswords : LoginCjs(e, p)
  \/ \E id \in {"u1"}, a \in BOOLEAN : SetActive(id, a)
  \/ revision = "esm" /\ \E st \in {"ACTIVE", "SUSPENDED"} : AdminSetStatus("u1", st)
  \/ revision = "esm" /\ \E t \in RefreshTokenInputs(clock), c \in ClientInputs :
       Refresh(t, c[1], c[2])
  \/ revision = "esm" /\ \E t \in RefreshTokenInputs(clock) : Logout(t)

SpecRegister == InitRegister /\ [][NextRegister]_vars

\* ------------------------------------------------------------ profile
\* the select of authenticateToken, which is req.user, and of GET /users/me
ProfileSelect ==
  IF revision = "esm" THEN {"id", "email", "role", "status"}
                      ELSE {"id", "email", "role", "isActive"}

\* the select of prisma.user.update in PUT /users/me
ProfileUpdateSelect ==
  IF revision = "esm" THEN {"id", "email", "role", "status"}
                      ELSE {"id", "email", "role"}

\* authenticateToken alone in front of a handler
Authorized(header) ==
  LET auth == Authenticated(header) IN
  IF ~auth.next
    THEN [next |-> FALSE, code |-> 401, message |-> auth.message, userId |-> "none"]
    ELSE [next |-> TRUE, code |-> 0, message |-> "", userId |-> header.userId]

\* GET /users/me: revision esm returns req.user, revision cjs reads the row
\* again
GetProfile(header) ==
  /\ LET guard == Authorized(header) IN
     IF ~guard.next
       THEN Rejected("profile", guard, header)
       ELSE /\ resp' = WithUser(Response("profile", 200, "", guard.userId, NoTokens),
                                Select(AttachedUser(users, header), ProfileSelect))
            /\ UNCHANGED <<users, auditLog>>
  /\ UNCHANGED <<clock, sessions, nextSid, auditStore, inflight, loginStats, revision, env>>

\* PUT /users/me: names, company and the like, which are no columns of the
\* model; valid says that the body passes the validation
UpdateProfile(header, valid) ==
  /\ LET guard == Authorized(header) IN
     IF ~guard.next
       THEN Rejected("profileUpdate", guard, header)
     ELSE IF ~valid
       THEN Answered("profileUpdate", 400,
              Message("Validation failed", "First name must be between 2 and 50 characters."),
              guard.userId)
     ELSE /\ auditLog' = logAuditEvent(auditLog, guard.userId,
                            IF revision = "esm" THEN "PROFILE_UPDATE" ELSE "USER_UPDATED", "")
          /\ resp' = WithUser(
               Response("profileUpdate", 200, "Profile updated successfully",
                        guard.userId, NoTokens),
               Select(users[guard.userId], ProfileUpdateSelect))
          /\ UNCHANGED users
  /\ UNCHANGED <<clock, sessions, nextSid, auditStore, inflight, loginStats, revision, env>>

\* ------------------------------------------------------------ responses
\* a deployment with the administrator b@x.com
InitResponses ==
  /\ env = DefaultEnv
  /\ revision \in Revisions
  /\ \E role \in {"ADMIN", "SUPER_ADMIN"} :
       users = [id \in {"u1"} |->
                  [NewUser(id, "b@x.com", "Str0ng!Pass") EXCEPT !.role = role]]
  /\ clock = 0
  /\ sessions = {}
  /\ nextSid = 1
  /\ auditStore = "down"
  /\ auditLog = {}
  /\ resp = NoResponse
  /\ inflight = [r \in Requests |-> Idle]
  /\ loginStats = [failed |-> 0, succeeded |-> 0]

\* every route that returns user objects is called
NextResponses ==
  \/ \E e \in RegisterEmails, p \in RegisterPasswords : Register(e, p, "ip1", "ua1")
  \/ \E e \in {"a@x.com", "b@x.com"} : LoginRequest(e, "Str0ng!Pass")
  \/ revision = "esm" /\ \E t \in RefreshTokenInputs(clock), c \in ClientInputs :
       Refresh(t, c[1], c[2])
  \/ \E h \in AdminHeaders : GetProfile(h)
  \/ \E h \in AdminHeaders, valid \in BOOLEAN : UpdateProfile(h, valid)
  \/ \E h \in AdminHeaders : ListUsers(h)
  \/ \E h \in AdminHeaders, id \in AdminIds \cup {UnknownId}, role \in RoleInputs :
       UpdateRole(h, id, role)
  \/ \E h \in AdminHeaders, id \in AdminIds \cup {UnknownId}, body \in StatusInputs :
       UpdateStatus(h, id, body)

SpecResponses == InitResponses /\ [][NextResponses]_vars

\* ------------------------------------------------------------ audit store outages
\* the audit store goes down or comes back between two requests
AuditStoreFlip ==
  /\ auditStore' = IF auditStore = "up" THEN "down" ELSE "up"
  /\ UNCHANGED <<clock, users, sessions, nextSid, auditLog, resp, inflight,
                 loginStats, revision, env>>

\* a deployment with the super administrator b@x.com, the audit store up
InitAudit ==
  /\ env = DefaultEnv
  /\ revision \in Revisions
  /\ users = [id \in {"u1"} |->
                [NewUser(id, "b@x.com", "Str0ng!Pass") EXCEPT !.role = "SUPER_ADMIN"]]
  /\ clock = 0
  /\ sessions = {}
  /\ nextSid = 1
  /\ auditStore = "up"
  /\ auditLog = {}
  /\ resp = NoResponse
  /\ inflight = [r \in Requests |-> Idle]
  /\ loginStats = [failed |-> 0, succeeded |-> 0]

\* the audit log is followed up to this many records
MaxAuditLog == 1

AuditLogOpen == Cardinality(auditLog) < MaxAuditLog

\* the requests of the primary operations: with and without credentials, on
\* accounts that exist and on accounts that do not
AuditEmails == {"a@x.com", "b@x.com"}
AuditPasswords == {"Str0ng!Pass", "wrong"}
AuditHeaders == {NoToken, AdminToken("u1", "SUPER_ADMIN", JWT_SECRET, clock)}
AuditBearers == {NoToken, AccessTokenOf(users, "u1", JWT_SECRET, 0)}
AuditBodies ==
  {<<"Str0ng!Pass", "0ther!Pass1">>, <<"", "0ther!Pass1">>,
   <<"0ther!Pass1", "Str0ng!Pass">>}
AuditRefreshTokens == {generateRefreshToken(u, 0) : u \in {"u1", "u2"}}

RegisterRequest(email) == Register(email, "Str0ng!Pass", "ip1", "ua1")
RefreshRequest(token) == revision = "esm" /\ Refresh(token, "ip1", "ua1")
LogoutRequest(token) == revision = "esm" /\ Logout(token)
PasswordRequest(bearer, body) ==
  revision = "esm" /\ ChangePassword(bearer, body[1], body[2])
RoleRequest(header) == UpdateRole(header, "u2", "ADMIN")
StatusRequest(header) == UpdateStatus(header, "u2", [isActive |-> FALSE])

NextAudit ==
  \/ AuditStoreFlip
  \/ AuditLogOpen /\ \E e \in AuditEmails : RegisterRequest(e)
  \/ AuditLogOpen /\ \E p \in AuditPasswords : LoginRequest("b@x.com", p)
  \/ AuditLogOpen /\ \E t \in AuditRefreshTokens : RefreshRequest(t)
  \/ AuditLogOpen /\ \E t \in AuditRefreshTokens : LogoutRequest(t)
  \/ AuditLogOpen /\ \E b \in AuditBearers, body \in AuditBodies : PasswordRequest(b, body)
  \/ AuditLogOpen /\ \E h \in AuditHeaders : RoleRequest(h)
  \/ AuditLogOpen /\ \E h \in AuditHeaders : StatusRequest(h)

SpecAudit == InitAudit /\ [][NextAudit]_vars

\* ------------------------------------------------------------ concurrent registration
\* POST /auth/register of revision esm as the event loop runs it: the handler
\* gives way at await prisma.user.findUnique and at await hashPassword, so
\* another registration can create the row between its lookup and its create

\* variant: the store has no unique index on User.email
EmailTaken_NoIndex(us, email) == FALSE

\* email String @unique: prisma.user.create throws when a row holds the email
EmailTaken(us, email) == \E u \in DOMAIN us : us[u].email = email

\* validation, validatePassword and findUnique: a refusal is answered at
\* once, otherwise the handler goes on to hash the password
RegisterBegin(r, email, password) ==
  /\ revision = "esm"
  /\ inflight[r] = Idle
  /\ Cardinality(DOMAIN users)
       + Cardinality({q \in Requests : inflight[q] # Idle}) < MaxUsers
  /\ IF ~RegisterValid(email, password)
       THEN /\ resp' = Response("register", 400, "Validation failed", "none", NoTokens)
            /\ UNCHANGED <<auditLog, inflight>>
     ELSE IF ~validatePassword(password)
       THEN /\ resp' = WeakPasswordResponse
            /\ UNCHANGED <<auditLog, inflight>>
     ELSE IF FindUserByEmail(users, RegisterEmail(email)) # NoUser
       THEN /\ auditLog' = logAuditEvent(auditLog, "none", "USER_REGISTER",
                                         "Email already exists")
            /\ resp' = DuplicateEmailResponse
            /\ UNCHANGED inflight
     ELSE /\ inflight' = [inflight EXCEPT
                            ![r] = [pc |-> "create", email |-> email, password |-> password]]
          /\ UNCHANGED <<auditLog, resp>>
  /\ UNCHANGED <<clock, users, sessions, nextSid, auditStore, loginStats, revision, env>>

\* await prisma.user.create, generateTokenPair and the 201; a create that the
\* store refuses ends in the catch block with 500
RegisterFinish(r) ==
  /\ inflight[r] # Idle
  /\ inflight[r].pc = "create"
  /\ nextSid <= MaxSessions
  /\ IF EmailTaken(users, RegisterEmail(inflight[r].email))
       THEN /\ resp' = Response("register", 500, "Internal server error", "none", NoTokens)
            /\ UNCHANGED <<users, sessions, nextSid, auditLog>>
       ELSE RegisterCreate(inflight[r].email, inflight[r].password, "ip1", "ua1")
  /\ inflight' = [inflight EXCEPT ![r] = Idle]
  /\ UNCHANGED <<clock, auditStore, loginStats, revision, env>>

InitRegisterRace == InitRegister /\ revision = "esm"

\* up to two registrations are in flight
NextRegisterRace ==
  \/ Tick
  \/ \E r \in Requests, e \in RegisterEmails \cup {"b@x.com"}, p \in RegisterPasswords :
       RegisterBegin(r, e, p)
  \/ \E r \in Requests : RegisterFinish(r)

SpecRegisterRace == InitRegisterRace /\ [][NextRegisterRace]_vars

\* ------------------------------------------------------------ token kinds
\* a deployment of revision esm with either setting of the two secrets
InitKinds ==
  /\ InitStore
  /\ auditStore = "down"
  /\ env \in {DefaultEnv, SharedSecretEnv}

\* the tokens generateTokenPair hands to the users up to now
IssuedRefreshTokens(now) ==
  {generateRefreshToken(u, i) : u \in UserIds, i \in 0..Seconds(now)}
IssuedAccessTokens(now) ==
  {generateAccessToken(TokenPayload(users[u]), i) : u \in UserIds, i \in 0..Seconds(now)}

\* clients present either kind of token to a route behind authenticateToken
\* and to POST /auth/refresh
NextKinds ==
  \/ Tick
  \/ LoginWithCredentials({"a@x.com"})
  \/ \E t \in IssuedRefreshTokens(clock) \cup IssuedAccessTokens(clock) : GetProfile(t)
  \/ \E t \in IssuedRefreshTokens(clock) \cup IssuedAccessTokens(clock) :
       Refresh(t, "ip1", "ua1")

SpecKinds == InitKinds /\ [][NextKinds]_vars

\* ------------------------------------------------------------ token verification
\* what the caller of the verification sees: the message of the error thrown,
\* "" when the token verifies.  verifyAccessToken of lib/jwt.js catches every
\* error of jwt.verify and throws one message; verifyToken of the CommonJS
\* lib/jwt.js maps the error names to messages
AccessTokenError(token, now) ==
  IF revision = "esm"
    THEN (IF verifyAccessToken(token, now) THEN "" ELSE "Invalid or expired access token")
    ELSE verifyToken(token, now)

\* access tokens a client can present at tick now: signed by this service at
\* some tick up to now, signed with another key, or signed by this service for
\* another audience
VerifyInputs(now) ==
  UNION {{AdminToken("u1", DefaultRole, JWT_SECRET, t),
          AdminToken("u1", DefaultRole, "forged", t),
          [AdminToken("u1", DefaultRole, JWT_SECRET, t) EXCEPT !.aud = "other-app"]}
         : t \in 0..now}

\* a caller verifies an access token
VerifyRequest(token) ==
  /\ resp' = [op |-> "verify", code |-> 0, token |-> token,
              error |-> AccessTokenError(token, clock)]
  /\ UNCHANGED <<clock, users, sessions, nextSid, auditStore, auditLog,
                 inflight, loginStats, revision, env>>

NextVerify ==
  \/ Tick
  \/ \E t \in VerifyInputs(clock) : VerifyRequest(t)

SpecVerify == InitAdmin /\ [][NextVerify]_vars

\* ------------------------------------------------------------ login properties
\* the account a login request names, as the claims speak of it
Account(email) == FindUserByEmail(users, ToLowerCase(email))

Validated(email, password) == IsEmail(email) /\ password # ""

LockPending(user) == user.lockedUntil # NoTime /\ user.lockedUntil > clock

LockLapsed(user) == user.lockedUntil # NoTime /\ user.lockedUntil <= clock

RightPassword(user, password) == user.password = HashPassword(password)

\* C1 as stated: the lockout cycle, with the login after the lock window
\* succeeding whatever the status of the account
C1_LockoutCycleAnyStatus ==
  [][resp'.op = "login" =>
     \A e \in Emails, p \in Passwords :
       LET user == Account(e) IN
       (Login(e, p, "ip1", "ua1") /\ Validated(e, p) /\ user # NoUser) =>
         /\ (user.loginAttempts < MAX_LOGIN_ATTEMPTS => ~LockPending(user))
         /\ (~RightPassword(user, p) /\ ~LockPending(user) =>
               /\ users'[user.id].loginAttempts = user.loginAttempts + 1
               /\ (users'[user.id].loginAttempts >= MAX_LOGIN_ATTEMPTS =>
                     users'[user.id].lockedUntil > clock))
         /\ (RightPassword(user, p) /\ LockPending(user) =>
               /\ resp'.code = 423
               /\ sessions' = sessions)
         /\ (RightPassword(user, p) /\ LockLapsed(user) =>
               /\ resp'.code = 200
               /\ users'[user.id].loginAttempts = 0
               /\ users'[user.id].lockedUntil = NoTime)]_vars

\* C1, amended: from loginAttempts = 0 every wrong-password login counts (an
\* account below the maximum is never locked), the one that takes the counter
\* to MAX_LOGIN_ATTEMPTS locks the account, a correct password during the lock
\* window is answered 423 and creates no session, and after the window a
\* correct password for an ACTIVE account is answered 200 and leaves
\* loginAttempts = 0 and lockedUntil = null
C1_LockoutCycle ==
  [][resp'.op = "login" =>
     \A e \in Emails, p \in Passwords :
       LET user == Account(e) IN
       (Login(e, p, "ip1", "ua1") /\ Validated(e, p) /\ user # NoUser) =>
         /\ (user.loginAttempts < MAX_LOGIN_ATTEMPTS => ~LockPending(user))
         /\ (~RightPassword(user, p) /\ ~LockPending(user) =>
               /\ users'[user.id].loginAttempts = user.loginAttempts + 1
               /\ (users'[user.id].loginAttempts >= MAX_LOGIN_ATTEMPTS =>
                     users'[user.id].lockedUntil > clock))
         /\ (RightPassword(user, p) /\ LockPending(user) =>
               /\ resp'.code = 423
               /\ sessions' = sessions)
         /\ (RightPassword(user, p) /\ LockLapsed(user) /\ user.status = "ACTIVE" =>
               /\ resp'.code = 200
               /\ users'[user.id].loginAttempts = 0
               /\ users'[user.id].lockedUntil = NoTime)]_vars

\* a login answered 200 after the lock that the log records has lapsed
C1_Witness ==
  /\ resp.op = "login" /\ resp.code = 200 /\ resp.userId = "u1"
  /\ [userId |-> "u1", action |-> "USER_LOGIN_FAILED", details |-> "locked: true"]
       \in auditLog
  /\ [userId |-> "u1", action |-> "USER_LOGIN_FAILED", details |-> "Account locked"]
       \in auditLog
  /\ users["u1"].loginAttempts = 0
  /\ users["u1"].lockedUntil = NoTime
  /\ users["u1"].lastLoginAt = clock

\* C3: a wrong-password login for an existing account that is not locked adds
\* one to loginAttempts, sets lockedUntil to now + LOCK_TIME exactly when the
\* new counter is >= MAX_LOGIN_ATTEMPTS (else leaves it), is answered 401
\* 'Invalid email or password' and creates no session
C3_FailedLogin ==
  [][resp'.op = "login" =>
     \A e \in Emails, p \in Passwords :
       LET user == Account(e) IN
       (/\ Login(e, p, "ip1", "ua1") /\ Validated(e, p) /\ user # NoUser
        /\ ~LockPending(user) /\ ~RightPassword(user, p)) =>
         /\ users'[user.id].loginAttempts = user.loginAttempts + 1
         /\ users'[user.id].lockedUntil =
              (IF user.loginAttempts + 1 >= MAX_LOGIN_ATTEMPTS
                 THEN clock + LOCK_TIME ELSE user.lockedUntil)
         /\ \A f \in DOMAIN user \ {"loginAttempts", "lockedUntil"} :
              users'[user.id][f] = user[f]
         /\ \A id \in DOMAIN users \ {user.id} : users'[id] = users[id]
         /\ resp'.code = 401
         /\ resp'.message = "Invalid email or password"
         /\ resp'.refreshToken = NoToken
         /\ sessions' = sessions]_vars

\* the failed login that reached the maximum and locked the account
C3_Witness ==
  /\ resp.op = "login" /\ resp.code = 401
  /\ users["u1"].loginAttempts = MAX_LOGIN_ATTEMPTS
  /\ users["u1"].lockedUntil = clock + LOCK_TIME

\* C4: a login while lockedUntil is in the future is answered 423 whatever
\* the password, and leaves the user rows and the session table unchanged
C4_LockedLoginFrame ==
  [][resp'.op = "login" =>
     \A e \in Emails, p \in Passwords :
       LET user == Account(e) IN
       (/\ Login(e, p, "ip1", "ua1") /\ Validated(e, p) /\ user # NoUser
        /\ LockPending(user)) =>
         /\ resp'.code = 423
         /\ resp'.refreshToken = NoToken
         /\ users' = users
         /\ sessions' = sessions]_vars

\* a locked account has been answered 423
C4_Witness ==
  /\ resp.op = "login" /\ resp.code = 423
  /\ users["u1"].lockedUntil > clock
  /\ users["u1"].loginAttempts >= MAX_LOGIN_ATTEMPTS

\* C5: a login with the correct password for an unlocked ACTIVE account sets
\* loginAttempts to 0, lockedUntil to null and lastLoginAt to the current time
C5_SuccessfulLoginResets ==
  [][resp'.op = "login" =>
     \A e \in Emails, p \in Passwords :
       LET user == Account(e) IN
       (/\ Login(e, p, "ip1", "ua1") /\ Validated(e, p) /\ user # NoUser
        /\ ~LockPending(user) /\ RightPassword(user, p) /\ user.status = "ACTIVE") =>
         /\ users'[user.id].loginAttempts = 0
         /\ users'[user.id].lockedUntil = NoTime
         /\ users'[user.id].lastLoginAt = clock]_vars

\* a successful login that followed failed ones, below the maximum
C5_Witness ==
  /\ resp.op = "login" /\ resp.code = 200 /\ resp.userId = "u1"
  /\ [userId |-> "u1", action |-> "USER_LOGIN_FAILED", details |-> "locked: false"]
       \in auditLog
  /\ [userId |-> "u1", action |-> "USER_LOGIN_FAILED", details |-> "locked: true"]
       \notin auditLog
  /\ users["u1"].loginAttempts = 0
  /\ users["u1"].lastLoginAt = clock

\* ------------------------------------------------------------ refresh properties
LiveSessionFor(token) == \E s \in sessions : s.token = token /\ s.expiresAt > clock

LiveSessionOfActiveUser(token) ==
  \E s \in sessions :
    s.token = token /\ s.expiresAt > clock /\ users[s.userId].status = "ACTIVE"

LiveSessionOfInactiveUser(token) ==
  \E s \in sessions :
    s.token = token /\ s.expiresAt > clock /\ users[s.userId].status # "ACTIVE"

SignedByService(token) ==
  token.secret = JWT_REFRESH_SECRET /\ token.aud = "smk-frontend"

ExpClaimInFuture(token) == clock \div TicksPerSec < token.exp

\* C6 as stated: a refresh succeeds iff the signature is valid, a Session row
\* with that token has expiresAt in the future and its owner is ACTIVE
C6_RefreshIffSignatureSessionActive ==
  [][resp'.op = "refresh" =>
     \A t \in RefreshTokenInputs(clock), c \in ClientInputs :
       Refresh(t, c[1], c[2]) =>
         (resp'.code = 200 <=> (SignedByService(t) /\ LiveSessionOfActiveUser(t)))]_vars

\* C6, amended: a refresh succeeds iff, at that call, the token verifies (valid
\* signature and its own exp claim not yet reached), a Session row with that
\* token has expiresAt in the future and its owner is ACTIVE
C6_RefreshIffValid ==
  [][resp'.op = "refresh" =>
     \A t \in RefreshTokenInputs(clock), c \in ClientInputs :
       Refresh(t, c[1], c[2]) =>
         (resp'.code = 200 <=>
            (SignedByService(t) /\ ExpClaimInFuture(t) /\ LiveSessionOfActiveUser(t)))]_vars

\* the only session ever issued refreshes again after its owner was refused as
\* not active
C6_Witness ==
  /\ resp.op = "refresh" /\ resp.code = 200 /\ resp.userId = "u1"
  /\ nextSid = 2
  /\ users["u1"].status = "ACTIVE"
  /\ [userId |-> "none", action |-> "TOKEN_REFRESH",
      details |-> "User account is not active"] \in auditLog

\* C7 as stated: no live session for the token gives 'Invalid or expired refresh
\* token', a live session of an owner who is not ACTIVE gives 'User account is
\* not active'; neither returns an access token
C7_RefreshErrorsAnyToken ==
  [][resp'.op = "refresh" =>
     \A t \in RefreshTokenInputs(clock), c \in ClientInputs :
       Refresh(t, c[1], c[2]) =>
         /\ (~LiveSessionFor(t) =>
               /\ resp'.code = 401
               /\ resp'.message = "Invalid or expired refresh token"
               /\ resp'.accessToken = NoToken)
         /\ (LiveSessionOfInactiveUser(t) =>
               /\ resp'.code = 401
               /\ resp'.message = "User account is not active"
               /\ resp'.accessToken = NoToken)]_vars

\* C7, amended: no live session for the token gives 'Invalid or expired refresh
\* token'; a token that still verifies and has a live session of an owner who
\* is not ACTIVE gives 'User account is not active'; neither returns an access
\* token
C7_RefreshErrors ==
  [][resp'.op = "refresh" =>
     \A t \in RefreshTokenInputs(clock), c \in ClientInputs :
       Refresh(t, c[1], c[2]) =>
         /\ (~LiveSessionFor(t) =>
               /\ resp'.code = 401
               /\ resp'.message = "Invalid or expired refresh token"
               /\ resp'.accessToken = NoToken)
         /\ (SignedByService(t) /\ ExpClaimInFuture(t) /\ LiveSessionOfInactiveUser(t) =>
               /\ resp'.code = 401
               /\ resp'.message = "User account is not active"
               /\ resp'.accessToken = NoToken)]_vars

\* a refresh was refused as not active while the session of the suspended
\* owner is live
C7_Witness ==
  /\ resp.op = "refresh" /\ resp.code = 401
  /\ resp.message = "User account is not active"
  /\ users["u1"].status = "SUSPENDED"
  /\ \E s \in sessions : s.userId = "u1" /\ s.expiresAt > clock

\* what a refresh may not change of the session table
SessionIdentities(ss) ==
  {[id |-> s.id, userId |-> s.userId, token |-> s.token, expiresAt |-> s.expiresAt] :
     s \in ss}

C9_PasswordChangeRevokes ==
  [][(resp'.op = "password" /\ resp'.code = 200) =>
     \A b \in BearerInputs(users, clock), body \in ChangePasswordInputs :
       ChangePassword(b, body[1], body[2]) =>
         /\ b # NoToken
         /\ resp'.userId = b.userId
         /\ \A s \in sessions' : s.userId # b.userId
         /\ \A t \in RefreshTokenInputs(clock) :
              t.userId = b.userId => RefreshOutcome(sessions', users', t, clock) # "ok"
         /\ {s \in sessions' : s.userId # b.userId} =
              {s \in sessions : s.userId # b.userId}]_vars

\* u1 changed the password: of the two sessions issued, only the one of u2 is left
C9_Witness ==
  /\ resp.op = "password" /\ resp.code = 200 /\ resp.userId = "u1"
  /\ nextSid = 3
  /\ Cardinality(sessions) = 1
  /\ \A s \in sessions : s.userId = "u2"

\* C10 as stated: after a successful DELETE /users/me/sessions by u no Session
\* row of u remains
C10_AllSessionsRevoked ==
  [][(resp'.op = "sessions" /\ resp'.code = 200) =>
     \A b \in BearerInputs(users, clock) :
       RevokeSessions(b) =>
         \A s \in sessions' : s.userId # resp'.userId]_vars

\* ------------------------------------------------------------ concurrency properties
\* C2 as stated: when the wrong-password logins for the account have all
\* completed, with no login having succeeded, loginAttempts has grown by the
\* number of them
C2_NoLostIncrement ==
  ((\A r \in Requests : inflight[r] = Idle) /\ loginStats.succeeded = 0)
    => users["u1"].loginAttempts = loginStats.failed

\* ------------------------------------------------------------ logout properties
\* C11: revoking a token never fails and deletes exactly the rows whose token
\* is the argument: with no such row the table is left as it was, and revoking
\* the same token again changes nothing more
C11_RevokeIdempotent ==
  [][resp'.op = "logout" =>
     \A t \in RefreshTokenInputs(clock) :
       Logout(t) =>
         /\ resp'.code = 200
         /\ sessions' = {s \in sessions : s.token # t}
         /\ ((\A s \in sessions : s.token # t) => sessions' = sessions)
         /\ {s \in sessions' : s.token # t} = sessions']_vars

\* a logout removed one of the two sessions issued and left the other
C11_Witness ==
  /\ resp.op = "logout" /\ resp.code = 200
  /\ nextSid = 3
  /\ Cardinality(sessions) = 1

\* C12 as stated: a refresh that read its session completes as one of the two
\* orders with the revoke allows: it succeeds, or it is refused with 'Invalid
\* or expired refresh token'
C12_RefreshRevokeSerializable ==
  [][resp'.op = "refresh" =>
     \A r \in Requests :
       RefreshUpdate(r) =>
         \/ resp'.code = 200
         \/ resp'.code = 401 /\ resp'.message = "Invalid or expired refresh token"]_vars

\* ------------------------------------------------------------ middleware properties
\* the header carries a token that verifies and names an account of the store
\* that is active now
Admissible(header) ==
  /\ header \notin {NoToken, MalformedHeader}
  /\ header.secret = JWT_SECRET
  /\ header.aud = "smk-frontend"
  /\ clock \div TicksPerSec < header.exp
  /\ header.userId \in DOMAIN users
  /\ IF revision = "esm" THEN users[header.userId].status = "ACTIVE"
                          ELSE users[header.userId].isActive

\* a request with this header to the role-change, status-change or delete
\* endpoint
ChangeRequest(header) ==
  \/ /\ resp'.op = "role"
     /\ \E id \in AdminIds \cup {UnknownId}, role \in RoleInputs :
          UpdateRole(header, id, role)
  \/ /\ resp'.op = "status"
     /\ \E id \in AdminIds \cup {UnknownId}, body \in StatusInputs :
          UpdateStatus(header, id, body)
  \/ /\ resp'.op = "delete"
     /\ \E id \in AdminIds \cup {UnknownId} : DeleteUser(header, id)

\* a request with this header to one of the routes behind authenticateToken
GuardedRequest(header) ==
  \/ resp'.op = "list" /\ ListUsers(header)
  \/ ChangeRequest(header)

\* C13: authenticateToken lets a request through if and only if the token
\* verifies and the user it names is in the store and active at that time;
\* every other request is answered 401
C13_AuthenticateIffLiveActive ==
  [][resp'.op \in {"list", "role", "status", "delete"} =>
     \A h \in AdminHeaders :
       GuardedRequest(h) => (resp'.code # 401 <=> Admissible(h))]_vars

\* an unexpired token of an account that was deactivated after the token was
\* minted has been answered 401
C13_Witness ==
  /\ revision = "cjs"
  /\ resp.op = "list" /\ resp.code = 401
  /\ resp.message = "Access denied. Account is deactivated."
  /\ \E u \in DOMAIN users : ~users[u].isActive

\* C14: an admin-only route decides on the role the store holds now, not on
\* the role claim of the token: an admitted caller whose row is ADMIN or
\* SUPER_ADMIN is served and any other is answered 403, whatever the claim
C14_LiveRoleDecides ==
  [][resp'.op = "list" =>
     \A h \in AdminHeaders :
       (ListUsers(h) /\ Admissible(h)) =>
         IF users[h.userId].role \in {"ADMIN", "SUPER_ADMIN"}
           THEN resp'.code = 200
           ELSE resp'.code = 403]_vars

\* u2, an ADMIN when every token of u2 was minted, has been demoted and is
\* answered 403 on the admin-only route
C14_Witness ==
  /\ resp.op = "list" /\ resp.code = 403 /\ resp.userId = "u2"
  /\ "u2" \in DOMAIN users
  /\ users["u2"].role \notin {"ADMIN", "SUPER_ADMIN"}
  /\ \A h \in AdminHeaders :
       (h \notin {NoToken, MalformedHeader} /\ h.userId = "u2") => h.role = "ADMIN"

\* the values req.user can have: unset, or a row of the store
RequestUsers == {NoUser} \cup {users[u] : u \in DOMAIN users}

\* C15: requireRole(allowed) lets a request through iff req.user is set and
\* its role is in allowed, answers 401 when no user is attached and 403 when
\* the role is not allowed; requireAdmin lets through exactly ADMIN and
\* SUPER_ADMIN, requireSuperAdmin exactly SUPER_ADMIN
C15_RequireRole ==
  \A user \in RequestUsers :
    /\ \A allowed \in SUBSET {"CUSTOMER", "USER", "ADMIN", "SUPER_ADMIN"} :
         /\ (requireRole(allowed, user) = 0) <=> (user # NoUser /\ user.role \in allowed)
         /\ (user = NoUser) => requireRole(allowed, user) = 401
         /\ (user # NoUser /\ user.role \notin allowed) => requireRole(allowed, user) = 403
    /\ (requireAdmin(user) = 0) <=>
         (user # NoUser /\ user.role \in {"ADMIN", "SUPER_ADMIN"})
    /\ (requireSuperAdmin(user) = 0) <=> (user # NoUser /\ user.role = "SUPER_ADMIN")

\* requireSuperAdmin has answered 403 to a caller whose role is ADMIN
C15_Witness ==
  /\ resp.op = "delete" /\ resp.code = 403
  /\ resp.userId \in DOMAIN users
  /\ users[resp.userId].role = "ADMIN"

\* C16: optionalAuth never rejects: for a missing or malformed header, an
\* invalid or expired token, an unknown or inactive user and a failing store
\* lookup it calls next() exactly once and sends no response; req.user is a
\* user only when the token verifies and that user exists and is active
C16_OptionalAuthNeverRejects ==
  [][resp'.op = "optionalAuth" =>
     \A h \in AdminHeaders, lookupFails \in BOOLEAN :
       OptionalAuthRequest(h, lookupFails) =>
         /\ resp'.calls = <<"next">>
         /\ resp'.userId # "none" =>
              (Admissible(h) /\ resp'.userId = h.userId)]_vars

\* a request whose token is good and whose user is active went through
\* without a user because the store lookup failed
C16_Witness ==
  /\ resp.op = "optionalAuth"
  /\ resp.lookupFails
  /\ Admissible(resp.header)
  /\ resp.calls = <<"next">> /\ resp.userId = "none"

\* C17: no request to the role-change, status-change or delete endpoint
\* changes the role or the active status of the account that issued it, or
\* deletes it: the row of the authenticated caller is the same after the
\* request as before
C17_SelfProtection ==
  [][resp'.op \in {"role", "status", "delete"} =>
     \A h \in AdminHeaders :
       (Admissible(h) /\ ChangeRequest(h)) =>
         /\ h.userId \in DOMAIN users'
         /\ users'[h.userId] = users[h.userId]]_vars

\* a SUPER_ADMIN has asked to delete the own account and was refused
C17_Witness ==
  /\ resp.op = "delete" /\ resp.code = 400
  /\ resp.message = "You cannot delete your own account."
  /\ resp.userId \in DOMAIN users
  /\ users[resp.userId].role = "SUPER_ADMIN"

\* a request with this header to the role-change or status-change endpoint
\* whose target is the account the token names
SelfRequest(header) ==
  \/ /\ resp'.op = "role"
     /\ \E role \in RoleInputs : UpdateRole(header, header.userId, role)
  \/ /\ resp'.op = "status"
     /\ \E body \in StatusInputs : UpdateStatus(header, header.userId, body)

\* the role gate in front of the handler that answered: requireSuperAdmin
\* for the role change of revision cjs, requireAdmin for the others
PassesGate(op, role) ==
  IF op = "role" /\ revision = "cjs"
    THEN role = "SUPER_ADMIN"
    ELSE role \in {"ADMIN", "SUPER_ADMIN"}

LesserCallerOnAdmin(header, id) ==
  /\ Admissible(header)
  /\ users[header.userId].role # "SUPER_ADMIN"
  /\ id \in DOMAIN users
  /\ users[id].role = "ADMIN"

\* the account id is in the store after the step as it was before
TargetUnchanged(id) == id \in DOMAIN users' /\ users'[id] = users[id]

C20_RoleChangeSuperAdminOnly ==
  [][resp'.op = "role" =>
     \A h \in AdminHeaders, id \in AdminIds, role \in ValidRoles :
       (Admissible(h) /\ UpdateRole(h, id, role) /\ users' # users) =>
         users[h.userId].role = "SUPER_ADMIN"]_vars

\* ------------------------------------------------------------ registration properties
\* an account whose email equals email once both are in lower case
EmailInUse(email) ==
  \E u \in DOMAIN users : ToLowerCase(users[u].email) = ToLowerCase(email)

\* C21: a registration whose email equals an existing user's email after
\* case-insensitive normalization is answered 409 and creates neither a user
\* nor a session
C21_DuplicateEmailRejected ==
  [][resp'.op = "register" =>
     \A e \in RegisterEmails, p \in RegisterPasswords :
       (/\ RegisterValid(e, p) /\ validatePassword(p)
        /\ EmailInUse(e)
        /\ Register(e, p, "ip1", "ua1")) =>
         (resp'.code = 409 /\ users' = users /\ sessions' = sessions)]_vars

\* the account a registration with this email and password created, as the
\* registration left it: no failed login, no lock, active, the default role
FreshAccount(u, email, password) ==
  /\ users[u].email = RegisterEmail(email)
  /\ users[u].password = HashPassword(password)
  /\ IF revision = "esm"
       THEN /\ users[u].role = "CUSTOMER" /\ users[u].status = "ACTIVE"
            /\ users[u].loginAttempts = 0 /\ users[u].lockedUntil = NoTime
       ELSE users[u].role = "USER" /\ users[u].isActive

\* C22: after a valid registration with an email not yet in use, a login
\* with the same email and password, with no failed login and no
\* administrative change in between, succeeds and returns an access token
\* whose claims carry the id of the created user and the default role
C22_LoginAfterRegistration ==
  [][resp'.op = "login" =>
     \A e \in RegisterEmails, p \in RegisterPasswords, u \in DOMAIN users :
       (FreshAccount(u, e, p) /\ LoginRequest(e, p)) =>
         /\ resp'.code = 200
         /\ resp'.accessToken.userId = u
         /\ resp'.accessToken.role = IF revision = "esm" THEN "CUSTOMER" ELSE "USER"]_vars

\* ids of the rows of the session table
SessionIds(ss) == {s.id : s \in ss}

\* C23: Session rows are created only by a successful login or registration,
\* one row per success: the new row is owned by the user of the response and
\* its token is the refresh token of the response; a rejected login or
\* registration adds no row
C23_OneSessionPerSuccess ==
  [][revision = "esm" =>
      /\ SessionIds(sessions') \ SessionIds(sessions) # {} =>
           (resp'.op \in {"login", "register"} /\ resp'.code \in {200, 201})
      /\ resp'.op \in {"login", "register"} =>
           \A e \in RegisterEmails, p \in RegisterPasswords :
             (Register(e, p, "ip1", "ua1") \/ Login(e, p, "ip1", "ua1")) =>
               IF resp'.code \in {200, 201}
                 THEN \E row \in sessions' :
                        /\ row.id \notin SessionIds(sessions)
                        /\ sessions' = sessions \cup {row}
                        /\ row.userId = resp'.userId
                        /\ row.token = resp'.refreshToken
                 ELSE sessions' = sessions]_vars

\* a registration and a later login of the same user have each left one row
C23_Witness ==
  /\ revision = "esm"
  /\ resp.op = "login" /\ resp.code = 200
  /\ Cardinality(sessions) = 2
  /\ \A s \in sessions : s.userId = resp.userId
  /\ \E s \in sessions : s.token = resp.refreshToken

\* ------------------------------------------------------------ expiry and verification
\* C24: when refresh is called with a token whose Session row exists and
\* whose expiresAt has passed, the call fails and the row is gone afterwards
C24_ExpiredSessionDeletedOnReuse ==
  [][resp'.op = "refresh" =>
     \A t \in RefreshTokenInputs(clock), c \in ClientInputs :
       (/\ \E s \in sessions : s.token = t /\ s.expiresAt <= clock
        /\ Refresh(t, c[1], c[2])) =>
         /\ resp'.code = 401
         /\ ~\E s \in sessions' : s.token = t]_vars

\* the token was signed by this service for its audience
MintedHere(token) == token.secret = JWT_SECRET /\ token.aud = "smk-frontend"

\* the expiry of the token lies in the future / has passed
BeforeExpiry(token) == clock < token.exp * TicksPerSec
AfterExpiry(token) == clock > token.exp * TicksPerSec

Visible(response) == [code |-> response.code, message |-> response.message]

\* the answer to a login whose email belongs to no user
UnknownEmailAnswer ==
  [code |-> 401,
   message |-> CASE revision = "esm" -> "Invalid email or password"
                 [] revision = "cjs" -> "Invalid email or password."
                 [] OTHER -> "Ungültige Anmeldedaten"]

\* the email the login handler looks up
LoginEmail(email) == IF revision = "esm" THEN ToLowerCase(email) ELSE BodyEmail(email)

\* C26: whatever the state of an existing account (locked or not, active or
\* not), a login with a wrong password for its email is answered with the
\* status code and message of a login with an email that belongs to no user
C26_NoAccountEnumeration ==
  [][resp'.op = "login" =>
     \A e \in RegisterEmails \ {"not-an-email"}, p \in RegisterPasswords \ {""} :
       LoginRequest(e, p) =>
         LET user == FindUserByEmail(users, LoginEmail(e)) IN
         /\ user = NoUser => Visible(resp') = UnknownEmailAnswer
         /\ (user # NoUser /\ user.password # HashPassword(p)) =>
              Visible(resp') = UnknownEmailAnswer]_vars


\* ------------------------------------------------------------ responses properties
\* the user objects a response carries
ReturnedUsers(response) ==
  (IF "user" \in DOMAIN response THEN {response.user} ELSE {})
    \cup (IF "users" \in DOMAIN response THEN response.users ELSE {})

\* C27: no response of registration, login, refresh, profile read, profile
\* update, user listing, role change or status change carries the password
\* column of a user
C27_NoPasswordInResponse ==
  \A user \in ReturnedUsers(resp) : "password" \notin DOMAIN user

\* a listing returned both accounts, whose rows hold a password hash each
C27_Witness ==
  /\ resp.op = "list"
  /\ resp.code = 200
  /\ Cardinality(resp.users) = 2
  /\ \A id \in DOMAIN users : users[id].password = HashPassword("Str0ng!Pass")


\* ------------------------------------------------------------ audit properties
\* status codes of the handlers
OutcomeCodes == {200, 201, 400, 401, 403, 404, 409, 423, 500}

\* the request A has the same answer and the same effect on users and sessions
\* in the state before and in the state after the step
SameOutcome(A) ==
  /\ \A c \in OutcomeCodes :
       (ENABLED (A /\ resp'.code = c)) = (ENABLED (A /\ resp'.code = c))'
  /\ (ENABLED (A /\ resp'.refreshToken # NoToken))
       = (ENABLED (A /\ resp'.refreshToken # NoToken))'
  /\ (ENABLED (A /\ users' = users)) = (ENABLED (A /\ users' = users))'
  /\ (ENABLED (A /\ sessions' = sessions)) = (ENABLED (A /\ sessions' = sessions))'
  /\ \A n \in 0..(MaxSessions + 1) :
       (ENABLED (A /\ Cardinality(sessions') = n))
         = (ENABLED (A /\ Cardinality(sessions') = n))'
  /\ \A id \in {"u1", "u2"}, r \in ValidRoles :
       (ENABLED (A /\ id \in DOMAIN users' /\ users'[id].role = r))
         = (ENABLED (A /\ id \in DOMAIN users' /\ users'[id].role = r))'

\* C28: audit recording is best-effort: when the audit store goes down or
\* comes back and nothing else changes, every registration, login, refresh,
\* logout, password change, role change and status change is answered with
\* the same status code and tokens and has the same effect on users and
\* sessions as before
C28_AuditBestEffort ==
  [][auditStore' # auditStore =>
       /\ \A e \in AuditEmails : SameOutcome(RegisterRequest(e))
       /\ \A p \in AuditPasswords : SameOutcome(LoginRequest("b@x.com", p))
       /\ \A t \in AuditRefreshTokens : SameOutcome(RefreshRequest(t))
       /\ \A t \in AuditRefreshTokens : SameOutcome(LogoutRequest(t))
       /\ \A b \in AuditBearers, body \in AuditBodies :
            SameOutcome(PasswordRequest(b, body))
       /\ \A h \in AuditHeaders : SameOutcome(RoleRequest(h))
       /\ \A h \in AuditHeaders : SameOutcome(StatusRequest(h))
  ]_vars

\* a role change succeeded while the audit store was down and its record was
\* lost
C28_Witness ==
  /\ auditStore = "down"
  /\ resp.op = "role"
  /\ resp.code = 200
  /\ auditLog = {}


\* C29: with the audit store available, every logout that revokes an existing
\* session appends a USER_LOGOUT record attributed to the owner of the session
C29_LogoutAudited ==
  [][resp'.op = "logout" /\ auditStore = "up" =>
       \A t \in RefreshTokenInputs(clock) :
         (\E s \in sessions : s.token = t) /\ Logout(t) =>
           \E s \in sessions, record \in auditLog' :
             /\ s.token = t
             /\ record.userId = s.userId
             /\ record.action = "USER_LOGOUT"
  ]_vars


\* C30: from loginAttempts = 0, as long as no login has succeeded and no lock
\* has run out, at most MAX_LOGIN_ATTEMPTS logins with a wrong password are
\* answered 401 after a password comparison, however the requests interleave
C30_BoundedGuessing ==
  (/\ loginStats.succeeded = 0
   /\ \A r \in Requests : inflight[r] = Idle \/ inflight[r].pc = "failed"
   /\ clock < LOCK_TIME)
    => loginStats.failed <= MAX_LOGIN_ATTEMPTS


\* ------------------------------------------------------------ lock properties
\* C31: in every state of a user row, lockedUntil is set only if loginAttempts
\* has reached MAX_LOGIN_ATTEMPTS, however the login requests interleave
C31_LockCounterConsistent ==
  \A id \in DOMAIN users :
    users[id].lockedUntil # NoTime => users[id].loginAttempts >= MAX_LOGIN_ATTEMPTS


\* C32: the lapse of the lock window alone changes neither loginAttempts nor
\* lockedUntil; a wrong password after a lock has run out, the counter being
\* at MAX_LOGIN_ATTEMPTS or above, adds one to the counter and locks the
\* account again until now + LOCK_TIME; the counter returns to 0 only in a
\* login that matched the password of the unlocked ACTIVE account
C32_LockExpiryKeepsCounter ==
  [][/\ clock' # clock => users' = users
     /\ \A id \in DOMAIN users :
          (users[id].loginAttempts > 0 /\ users'[id].loginAttempts = 0) =>
            \E e \in Emails, p \in Passwords :
              /\ Account(e) = users[id]
              /\ RightPassword(users[id], p)
              /\ ~LockPending(users[id])
              /\ users[id].status = "ACTIVE"
              /\ Login(e, p, "ip1", "ua1")
     /\ resp'.op = "login" =>
          \A e \in Emails, p \in Passwords :
            LET user == Account(e) IN
            (/\ Validated(e, p) /\ user # NoUser
             /\ LockLapsed(user) /\ user.loginAttempts >= MAX_LOGIN_ATTEMPTS
             /\ ~RightPassword(user, p)
             /\ Login(e, p, "ip1", "ua1")) =>
              /\ resp'.code = 401
              /\ users'[user.id].loginAttempts = user.loginAttempts + 1
              /\ users'[user.id].lockedUntil = clock + LOCK_TIME]_vars

\* a wrong password after the lock had run out locked the account again
C32_Witness ==
  /\ resp.op = "login" /\ resp.code = 401
  /\ clock >= LOCK_TIME
  /\ users["u1"].loginAttempts = MAX_LOGIN_ATTEMPTS + 1
  /\ users["u1"].lockedUntil = clock + LOCK_TIME


\* ------------------------------------------------------------ password change race
\* C33: every session a login leaves behind was created for a password that
\* is still the password of the account: a login that matched the old hash
\* before a password change creates no session after it
C33_NoSessionOutlivesPasswordChange ==
  [][\A r \in Requests :
       (inflight[r] # Idle /\ inflight[r].pc = "tokens" /\ sessions' # sessions
        /\ inflight'[r] = Idle) =>
         inflight[r].user.password = users[inflight[r].user.id].password]_vars


\* C34: a login with the correct password for an unlocked account whose
\* status is not ACTIVE is answered 401 'Account is not active' without
\* tokens and leaves the user rows (loginAttempts, lockedUntil, lastLoginAt)
\* and the session table as they were
C34_InactiveLoginFrame ==
  [][resp'.op = "login" =>
     \A e \in Emails, p \in Passwords :
       LET user == Account(e) IN
       (/\ Validated(e, p) /\ user # NoUser
        /\ ~LockPending(user) /\ RightPassword(user, p) /\ user.status # "ACTIVE"
        /\ Login(e, p, "ip1", "ua1")) =>
         /\ resp'.code = 401
         /\ resp'.message = "Account is not active"
         /\ resp'.accessToken = NoToken
         /\ resp'.refreshToken = NoToken
         /\ users' = users
         /\ sessions' = sessions
         /\ nextSid' = nextSid]_vars

\* a suspended account with failed logins on its counter was refused
C34_Witness ==
  /\ resp.op = "login" /\ resp.code = 401 /\ resp.message = "Account is not active"
  /\ users["u1"].status = "SUSPENDED"
  /\ users["u1"].loginAttempts > 0
  /\ users["u1"].lastLoginAt = NoTime


\* ------------------------------------------------------------ refresh frame
\* the row the refresh of token t matches
Matched(s, t) == s.token = t /\ s.userId = t.userId /\ s.expiresAt > clock

\* C35: a refresh leaves every user row as it was and every Session row too,
\* except for the ipAddress and the userAgent of the matched row, each of
\* which changes only to a value the request supplies; expiresAt, token and
\* userId never change, and a token whose session has expired is refused
C35_RefreshFrame ==
  [][resp'.op = "refresh" =>
     \A t \in RefreshTokenInputs(clock), c \in ClientInputs :
       Refresh(t, c[1], c[2]) =>
         /\ users' = users
         /\ nextSid' = nextSid
         /\ Cardinality(sessions') = Cardinality(sessions)
         /\ \A s \in sessions :
              \E s2 \in sessions' :
                /\ s2.id = s.id /\ s2.token = s.token /\ s2.userId = s.userId
                /\ s2.expiresAt = s.expiresAt
                /\ s2.ipAddress \in {s.ipAddress} \cup
                     (IF Matched(s, t) /\ resp'.code = 200 THEN {c[1]} \ {""} ELSE {})
                /\ s2.userAgent \in {s.userAgent} \cup
                     (IF Matched(s, t) /\ resp'.code = 200 THEN {c[2]} \ {""} ELSE {})
                /\ (c[1] = "" => s2.ipAddress = s.ipAddress)
                /\ (c[2] = "" => s2.userAgent = s.userAgent)
         /\ ((\E s \in sessions : s.token = t /\ s.expiresAt <= clock) =>
               resp'.code = 401)]_vars

\* the token of a session that a refresh had moved to ip2 was refused once
\* the expiry fixed at login had passed
C35_Witness ==
  /\ resp.op = "refresh" /\ resp.code = 401
  /\ resp.message = "Invalid or expired refresh token"
  /\ \E s \in sessions :
       s.ipAddress = "ip2" /\ s.userAgent = "ua1" /\ s.expiresAt <= clock
  /\ Cardinality(sessions) = 1


\* ------------------------------------------------------------ token kinds properties
\* C36: whatever the two secrets are, a refresh token sent as the bearer token
\* of a route behind authenticateToken is answered 401, and an access token
\* sent to POST /auth/refresh is answered 401
C36_TokenKindsNotInterchangeable ==
  [][/\ resp'.op = "profile" =>
          \A t \in IssuedRefreshTokens(clock) : GetProfile(t) => resp'.code = 401
     /\ resp'.op = "refresh" =>
          \A t \in IssuedAccessTokens(clock) :
            Refresh(t, "ip1", "ua1") => resp'.code = 401]_vars


\* ------------------------------------------------------------ status of a super administrator
\* C37: a status request of a caller whose role is ADMIN on an account whose
\* role is SUPER_ADMIN is rejected and leaves the account as it was
C37_AdminCannotDeactivateSuperAdmin ==
  [][resp'.op = "status" =>
     \A h \in AdminHeaders, id \in AdminIds, body \in StatusInputs :
       (/\ Admissible(h)
        /\ users[h.userId].role = "ADMIN"
        /\ id \in DOMAIN users /\ users[id].role = "SUPER_ADMIN"
        /\ UpdateStatus(h, id, body)) =>
         /\ resp'.code \in {400, 403}
         /\ users'[id] = users[id]]_vars


\* ------------------------------------------------------------ registration race
\* C38: however two registrations with the same normalized email interleave,
\* no two user rows hold the same email, a registration is answered 201 with
\* tokens only if no row held its email when it created its own, and a
\* registration that finds the email taken at its create adds no user and no
\* session; every account has exactly the one session of its registration
C38_EmailUniqueUnderRace ==
  [][/\ \A u1, u2 \in DOMAIN users' :
          users'[u1].email = users'[u2].email => u1 = u2
     /\ \A u \in DOMAIN users' :
          Cardinality({s \in sessions' : s.userId = u}) = 1
     /\ \A s \in sessions' : s.userId \in DOMAIN users'
     /\ \A r \in Requests :
          (inflight[r] # Idle /\ inflight'[r] = Idle) =>
            IF \E u \in DOMAIN users : users[u].email = ToLowerCase(inflight[r].email)
              THEN /\ resp'.code # 201
                   /\ resp'.refreshToken = NoToken
                   /\ users' = users
                   /\ sessions' = sessions
              ELSE /\ resp'.code = 201
                   /\ Cardinality(DOMAIN users') = Cardinality(DOMAIN users) + 1
                   /\ Cardinality(sessions') = Cardinality(sessions) + 1]_vars

\* two registrations with the same normalized email were in flight together:
\* one created the account, the other was refused at its create
C38_Witness ==
  /\ resp.op = "register" /\ resp.code = 500
  /\ Cardinality(DOMAIN users) = 1
  /\ Cardinality(sessions) = 1
  /\ \A r \in Requests : inflight[r] = Idle

====
